---- MODULE Spec2Model ----
(***************************************************************************)
(* Model of the schema-mount extension plugin of libyang                   *)
(* (schema_mount_compile, schema_mount_get_ctx and its shared and inline   *)
(* variants, schema_mount_validate, schema_mount_free).                    *)
(*                                                                         *)
(* One YANG module with a few schema nodes is compiled and freed by a      *)
(* single owner (context mutation is exclusive), while several threads     *)
(* ask the compiled mount-point instances for their inner contexts.        *)
(***************************************************************************)
EXTENDS Integers, Sequences, FiniteSets, TLC

\* ------------------------------------------------------------------ bounds
NumNodes == 3
MaxExts == 2
NumThreads == 2
MaxCtx == 2
MaxSubtrees == 2
MaxErrs == 3
MaxStmts == 3
MaxData == 3
MaxSubs == 3
MaxTail == 3
MaxPatterns == 2

Node == 1..NumNodes
Thread == 1..NumThreads
Label == {"mnt1", "mnt2"}
ContentId == {"idA", "idB"}
NoId == "none"

\* ------------------------------------------------------------------ state
VARIABLES
    version,       \* cur_mod->parsed->version of the module being compiled
    aborted,       \* compilation of the module failed; it is only freed from now on
    alive,         \* the schema nodes that are part of the compiled tree
    exts,          \* exts[n]: the compiled extension-instance array of node n
    shared,        \* shared[b]: the struct lyplg_ext_sm_shared with identity b
    nctx,          \* number of inner contexts ever constructed (their identities are 1..nctx)
    liveCtx,       \* the inner contexts that were constructed and not destroyed, each with
                   \* the shared block it was constructed for (0: for an inline mount point)
    memErr,        \* a freed or uninitialised object was used (undefined behaviour happened)
    last_compile,  \* what the schema_mount_compile call that just returned did
    inline_ok,     \* inline_ok[n]: successful inline get-context calls on node n's instance
    inline_given,  \* inline_given[n]: the contexts those calls handed to their callers
    shared_given,  \* shared_given[b]: the contexts shared get-context calls on block b handed
                   \* out, each with the content-id of the call
    last_ret,      \* what the call that just returned gave back to its caller
    pc,            \* pc[t]: where thread t is in its call
    fr,            \* fr[t]: the locals of thread t's call
    ly_ll,         \* the verbosity level of the logger (process-wide)
    ly_log_opts,   \* the logging options (process-wide)
    temp_log_opts, \* temp_log_opts[t]: the temporary options of thread t, <<>> when not set
    opts_ret,      \* what the last ly_log_options call returned, <<>> before any call
    errlist,       \* errlist[<<t, c>>]: first error record of thread t in context c (0: none)
    eitems,        \* eitems[i]: the struct ly_err_item with identity i
    err_events,    \* the error-level messages generated on the observed chain since it was
                   \* last cleared
    last_step,     \* <<s>> when the last step generated a message on the observed chain
                   \* (the message, the options and the level it met, the length of the
                   \* chain before it) or cleaned it (the position of the record it was
                   \* cleaned from, the records before the call); <<>> after any other step
    lyd_val,       \* the data validator at work on one tree: the tree with the outcome of
                   \* each node's when and must, the nodes still in the effective tree, the
                   \* musts evaluated and the errors raised
    sm_log,        \* the parse and validate callbacks at work on the log options: where
                   \* each thread stands, the old_log_opts and the return value of its
                   \* call, and the options when the first call started
    imp,           \* yin_parse_import at work on one import element of a module: the
                   \* substatements, the import it fills in, what it returned and what
                   \* parse_mod returned after it
    yin_arg,       \* a call of match_argument_name: the name, the length and the result
    printed,       \* ly_ctx_print_compiled_size at work on one context: the nodes, what
                   \* the walk has added to the size and the set of addresses it keeps
    smount,        \* a call of schema_mount_get_smount: the ext data it is given and what
                   \* it returns and writes
    yin            \* the YIN parser at work on one document: the document, the locals of
                   \* parse_mod, the module it fills in and what yin_parse_module returned

smvars == <<version, aborted, alive, exts, shared, nctx, liveCtx, memErr, last_compile,
            inline_ok, inline_given, shared_given, last_ret, pc, fr>>

logvars == <<ly_ll, ly_log_opts, temp_log_opts, opts_ret, errlist, eitems, err_events,
             last_step>>

\* the state of the parts of the library outside the plugin and the logger
libvars == <<yin, lyd_val, sm_log, smount, imp, yin_arg, printed>>

vars == <<smvars, logvars, libvars>>

\* ------------------------------------------------------------------ data
\* parent statement of the extension instances of node n (p_ext->parent_stmt)
parent_stmt(n) ==
    CASE n = 1 -> "LY_STMT_CONTAINER"
      [] n = 2 -> "LY_STMT_LIST"
      [] OTHER -> "LY_STMT_LEAF"

\* struct lyplg_ext_sm_inln: the array and its recorded length
EmptyInln == [schemas |-> <<>>, schema_count |-> 0]

\* c_ext->data: NULL, a live struct lyplg_ext_sm, or a pointer to a freed one
NullData == [state |-> "null", shared |-> 0, inln |-> EmptyInln]

\* an instance of an extension other than ietf-yang-schema-mount:mount-point
OtherExt == [def |-> "other", argument |-> "none", data |-> NullData]

\* a mount-point instance with the given label, before its compile callback ran
MountExt(label) == [def |-> "mount-point", argument |-> label, data |-> NullData]

\* struct lyplg_ext_sm_shared that was never allocated
NoShared == [state |-> "unalloc", lock |-> 0, schemas |-> <<>>, schema_count |-> 0,
             ref_count |-> 0]

\* struct lyplg_ext_sm_shared after free(): its contents are gone
FreedShared == [state |-> "freed", lock |-> 0, schemas |-> <<>>, schema_count |-> 0,
                ref_count |-> 0]

\* the module text: every even node already carries an instance of another extension
InitialExts(n) == IF n % 2 = 0 THEN <<OtherExt>> ELSE <<>>

AllIdle == \A t \in Thread : pc[t] = "idle"

NoFrame == [node |-> 0, idx |-> 0, calls |-> {}, content_id |-> NoId, i |-> 0]

NoRet == [op |-> "none", node |-> 0, idx |-> 0, content_id |-> NoId, path |-> "none",
          old |-> <<>>, ret |-> "none", ext_ctx |-> 0, ext_data |-> "null", calls |-> {},
          siblings |-> "untouched"]

NoCompile == [node |-> 0, idx |-> 0, ret |-> "none", alloc |-> "none", joined |-> 0,
              old_schemas |-> <<>>, old_live |-> {}]

\* no call has just returned: the results were taken by the callers
Taken == last_ret = NoRet /\ last_compile = NoCompile

\* no parse or validate call is running and none has started yet
SmLogIdle == [at |-> [t \in Thread |-> "idle"],
              old_log_opts |-> [t \in Thread |-> 0],
              ret |-> [t \in Thread |-> "none"],
              before |-> <<>>]

\* schema_mount_get_smount was not called
SmountIdle == [status |-> "idle", is_null |-> TRUE, ed |-> <<>>, config |-> "absent",
               oom |-> FALSE, out |-> <<>>]

\* ------------------------------------------------------------------ YIN data
\* enum yang_module_stmt: the sections of a module, in their order
Y_MOD_MODULE_HEADER == 0
Y_MOD_LINKAGE == 1
Y_MOD_META == 2
Y_MOD_REVISION == 3
Y_MOD_BODY == 4

\* the keywords of the statements a document holds at module level; container
\* stands for the body statements
HeaderKeyword == {"yang-version", "namespace", "prefix"}
LinkageKeyword == {"import", "include"}
MetaKeyword == {"organization", "contact", "description", "reference"}
RevisionKeyword == {"revision"}
BodyKeyword == {"container"}
YangKeyword ==
    HeaderKeyword \cup LinkageKeyword \cup MetaKeyword \cup RevisionKeyword \cup BodyKeyword

\* struct lys_module as yin_parse_module gets it: nothing is set; a field holds the
\* position of the statement whose argument it was set from
EmptyModule ==
    [ns |-> 0, prefix |-> 0, org |-> 0, contact |-> 0, dsc |-> 0, ref |-> 0,
     imports |-> <<>>, parsed |-> FALSE]

\* no document is being parsed; fn is the function the document is handed to, oom
\* whether its calloc fails, submod whether a submodule was handed back
YinIdle ==
    [status |-> "idle", root |-> "none", named |-> FALSE, stmts |-> <<>>, pos |-> 0,
     kw |-> "YANG_NONE", mod_stmt |-> Y_MOD_MODULE_HEADER, mod |-> EmptyModule,
     ret |-> "none", fn |-> "none", oom |-> FALSE, submod |-> FALSE]

\* the substatements an import element can hold; unknown stands for every element
\* yin_parse_import has no case for
ImportSub == {"prefix", "description", "reference", "revision-date", "unknown"}

\* no import is being parsed; a field of the import holds the position of the
\* substatement it was set from, 0 when it is not set
ImpIdle ==
    [status |-> "idle", subs |-> <<>>, pos |-> 0, prefix |-> 0, dsc |-> 0, ref |-> 0,
     rev |-> 0, ret |-> "none", consumed |-> FALSE, mod_ret |-> "none"]

\* match_argument_name was not called
ArgIdle == [status |-> "idle", name |-> <<>>, len |-> 0, arg |-> "none"]

\* the addresses of the compiled structures several nodes can share: the when
\* structures, the pattern structures, and the types (two string types and a union)
WhenAddr == {"when1", "when2"}
PatternAddr == 1..MaxPatterns
TypeAddr == {"str1", "str2", "uni"}

\* the values the first pointer-sized word of a pattern structure can hold
PatternWord == {"word1", "word2"}

\* ly_ctx_print_compiled_size was not called; whens, patterns and types count how
\* many times the walk added the size of each structure
CtxsIdle ==
    [status |-> "idle", leaves |-> <<>>, types |-> <<>>, word |-> <<>>, next |-> 0,
     ht |-> {}, whens |-> [w \in WhenAddr |-> 0], patterns |-> [q \in PatternAddr |-> 0],
     counted |-> [t \in TypeAddr |-> 0]]

\* ------------------------------------------------------------------ validator data
\* the nodes of a data tree; node 1 is its root and a parent comes before its children
DataNode == 1..MaxData

\* no tree is being validated
ValIdle ==
    [status |-> "idle", parent |-> <<>>, when |-> <<>>, must |-> <<>>, next |-> 0,
     effective |-> {}, evaluated |-> {}, errors |-> {}]

\* ------------------------------------------------------------------ logger data
\* logging option bits
LY_LOLOG == 1
LY_LOSTORE == 2
LY_LOSTORE_LAST == 6

\* LY_LOG_LEVEL
LY_LLERR == 0
LY_LLWRN == 1
LY_LLVRB == 2
LY_LLDBG == 3

LogLevel == {LY_LLERR, LY_LLWRN, LY_LLVRB, LY_LLDBG}

\* the option values callers set: print only, store all, print and store the last
LogOpts == {LY_LOLOG, LY_LOSTORE, LY_LOLOG + LY_LOSTORE_LAST}

\* the temporary options threads set (<<>>: NULL, the process-wide options apply)
TempOpts == {<<>>, <<LY_LOLOG>>, <<LY_LOSTORE>>}

\* the threads that use the logger and the contexts errors are recorded in
LogThread == {"thr1", "thr2"}
LogCtx == {"ctx1", "ctx2"}

\* the identities of the error records that can be allocated
ItemId == 1..MaxErrs

\* a struct ly_err_item that is not allocated
FreeItem == [used |-> FALSE, level |-> 0, no |-> "LY_SUCCESS", vecode |-> "LYVE_SUCCESS",
             msg |-> "", path |-> "", apptag |-> "", next |-> 0, prev |-> 0,
             thr |-> "", ctx |-> ""]

\* the logger before its first call: warning level, messages printed and the last
\* one stored, no error records
LogVarsInit ==
    /\ ly_ll = LY_LLWRN
    /\ ly_log_opts = LY_LOLOG + LY_LOSTORE_LAST
    /\ temp_log_opts = [t \in LogThread |-> <<>>]
    /\ opts_ret = <<>>
    /\ errlist = [k \in LogThread \X LogCtx |-> 0]
    /\ eitems = [i \in ItemId |-> FreeItem]
    /\ err_events = 0
    /\ last_step = <<>>

Init ==
    /\ LogVarsInit
    /\ yin = YinIdle
    /\ lyd_val = ValIdle
    /\ sm_log = SmLogIdle
    /\ smount = SmountIdle
    /\ imp = ImpIdle
    /\ yin_arg = ArgIdle
    /\ printed = CtxsIdle
    /\ version \in {"LYS_VERSION_1_0", "LYS_VERSION_1_1"}
    /\ aborted = FALSE
    /\ alive = Node
    /\ exts = [n \in Node |-> InitialExts(n)]
    /\ shared = [b \in Node |-> NoShared]
    /\ nctx = 0
    /\ liveCtx = {}
    /\ memErr = FALSE
    /\ last_compile = NoCompile
    /\ inline_ok = [n \in Node |-> 0]
    /\ inline_given = [n \in Node |-> {}]
    /\ shared_given = [b \in Node |-> {}]
    /\ last_ret = NoRet
    /\ pc = [t \in Thread |-> "idle"]
    /\ fr = [t \in Thread |-> NoFrame]

\* ------------------------------------------------------------------ compile
IsMountPoint(e) == e.def = "mount-point"

\* a uniqueness check that accepts every instance
always_unique(arr, u) == "LY_SUCCESS"

\* schema_mount_compile_unique_mp: no other mount-point among the parent's instances
schema_mount_compile_unique_mp(arr, u) ==
    IF \E v \in 1..Len(arr) : v # u /\ IsMountPoint(arr[v])
    THEN "LY_EINVAL" ELSE "LY_SUCCESS"

\* schema_mount_compile_mod_dfs_cb on every node but the parent: the instances of
\* the same mount point, as <<node, index>>
SameMountPoint(ex, n, label) ==
    {p \in Node \X (1..MaxExts) :
        /\ p[1] \in alive /\ p[1] # n
        /\ p[2] <= Len(ex[p[1]])
        /\ IsMountPoint(ex[p[1]][p[2]])
        /\ ex[p[1]][p[2]].argument = label}

\* a search that takes any mount point of another node for the same one
find_any_mount_point(ex, n, label) ==
    LET S == {p \in Node \X (1..MaxExts) :
                /\ p[1] \in alive /\ p[1] # n
                /\ p[2] <= Len(ex[p[1]])
                /\ IsMountPoint(ex[p[1]][p[2]])} IN
    IF S = {} THEN <<0, 0>>
    ELSE CHOOSE p \in S : \A q \in S :
            p[1] < q[1] \/ (p[1] = q[1] /\ p[2] <= q[2])

\* schema_mount_compile_find_shared: the first one the DFS meets, <<0, 0>> if none
schema_mount_compile_find_shared(ex, n, label) ==
    LET S == SameMountPoint(ex, n, label) IN
    IF S = {} THEN <<0, 0>>
    ELSE CHOOSE p \in S : \A q \in S :
            p[1] < q[1] \/ (p[1] = q[1] /\ p[2] <= q[2])

\* calloc, pthread_mutex_init and "ref_count = 1"
NewShared == [state |-> "live", lock |-> 0, schemas |-> <<>>, schema_count |-> 0,
              ref_count |-> 1]

\* a payload that is born with an inline context
CompiledDataWithContext(b) ==
    [state |-> "valid", shared |-> b,
     inln |-> [schemas |-> <<[ctx |-> 1]>>, schema_count |-> 1]]

\* the instance's own data once compile succeeded
CompiledData(b) == [state |-> "valid", shared |-> b, inln |-> EmptyInln]

\* c_ext->data after the calloc of the shared block failed: sm_data was freed,
\* the pointer to it is still stored in the instance
DanglingData == [state |-> "freed", shared |-> 0, inln |-> EmptyInln]

\* result of the checks that precede the allocation
compile_checks(arr, u, n) ==
    IF version # "LYS_VERSION_1_1" THEN "LY_EINVAL"
    ELSE IF parent_stmt(n) \notin {"LY_STMT_CONTAINER", "LY_STMT_LIST"} THEN "LY_EINVAL"
    ELSE schema_mount_compile_unique_mp(arr, u)

\* schema_mount_compile for a new mount-point instance with label `label` on node n;
\* alloc says which allocation fails, if any
schema_mount_compile(n, label, alloc) ==
    /\ Taken /\ AllIdle /\ ~aborted
    /\ n \in alive
    /\ Len(exts[n]) < MaxExts
    /\ compile_checks(Append(exts[n], MountExt(label)), Len(exts[n]) + 1, n) # "LY_SUCCESS"
            => alloc = "none"
    /\ schema_mount_compile_find_shared(exts, n, label) # <<0, 0>> => alloc # "shared"
    /\ LET arr == Append(exts[n], MountExt(label))
           u == Len(arr)
           chk == compile_checks(arr, u, n)
           hit == schema_mount_compile_find_shared(exts, n, label)
           other == exts[hit[1]][hit[2]].data
           b == IF hit = <<0, 0>> THEN n ELSE other.shared
           ret == IF chk # "LY_SUCCESS" THEN chk
                  ELSE IF alloc = "sm_data" THEN "LY_EMEM"
                  ELSE IF hit = <<0, 0>> /\ alloc = "shared" THEN "LY_EMEM"
                  ELSE "LY_SUCCESS"
           data == IF chk # "LY_SUCCESS" \/ alloc = "sm_data" THEN NullData
                   ELSE IF ret = "LY_EMEM" THEN DanglingData
                   ELSE CompiledData(b)
       IN
       /\ exts' = [exts EXCEPT ![n] = [arr EXCEPT ![u].data = data]]
       /\ shared' =
            IF ret # "LY_SUCCESS" THEN shared
            ELSE IF hit = <<0, 0>>
            THEN [shared EXCEPT ![b] = NewShared]
            ELSE [shared EXCEPT ![b].ref_count = @ + 1]
       /\ memErr' = (memErr \/ (chk = "LY_SUCCESS" /\ alloc # "sm_data" /\ hit # <<0, 0>>
                                /\ (other.state # "valid" \/ shared[b].state # "live")))
       /\ aborted' = (ret # "LY_SUCCESS")
       /\ last_compile' = [node |-> n, idx |-> u, ret |-> ret, alloc |-> alloc,
                           joined |-> IF ret = "LY_SUCCESS" /\ hit # <<0, 0>> THEN b ELSE 0,
                           old_schemas |-> IF ret = "LY_SUCCESS" /\ hit # <<0, 0>>
                                           THEN shared[b].schemas ELSE <<>>,
                           old_live |-> liveCtx]
    /\ UNCHANGED <<version, alive, last_ret, nctx, liveCtx, inline_ok, inline_given, shared_given, pc, fr>>
    /\ UNCHANGED <<logvars, libvars>>

Compile == \E n \in Node, label \in Label, alloc \in {"none", "sm_data", "shared"} :
    schema_mount_compile(n, label, alloc)

\* ------------------------------------------------------------------ free
\* a test that takes every reference for the last one
any_reference(ref_count) == TRUE

\* the test "!--sm_data->shared->ref_count" of schema_mount_free
last_reference(ref_count) == ref_count - 1 = 0

\* ly_ctx_destroy on every entry i < count of an array of contexts: the contexts
\* destroyed, and whether an entry outside the array or a dead context was touched
destroy_all(schemas, count, live) ==
    LET ctxs == {schemas[i].ctx : i \in 1..(IF count < Len(schemas) THEN count ELSE Len(schemas))}
    IN [live |-> {x \in live : x.ctx \notin ctxs},
        bad |-> \/ count > Len(schemas)
                \/ \E c \in ctxs : \A x \in live : x.ctx # c]

\* schema_mount_free of one extension instance with data d, on the heap
\* h = [shared, liveCtx, memErr]
schema_mount_free(h, d) ==
    IF d.state = "null" THEN h
    ELSE IF d.state = "freed" THEN [h EXCEPT !.memErr = TRUE]
    ELSE
      LET b == d.shared
          blk == h.shared[b]
          gone == blk.state # "live"
          last == ~gone /\ last_reference(blk.ref_count)
          sh == destroy_all(blk.schemas, blk.schema_count, h.liveCtx)
          live1 == IF last THEN sh.live ELSE h.liveCtx
          il == destroy_all(d.inln.schemas, d.inln.schema_count, live1)
      IN [shared |->
             IF gone THEN [h.shared EXCEPT ![b].state = "corrupt"]
             ELSE IF last THEN [h.shared EXCEPT ![b] = FreedShared]
             ELSE [h.shared EXCEPT ![b].ref_count = @ - 1],
          liveCtx |-> il.live,
          memErr |-> h.memErr \/ gone \/ (last /\ sh.bad) \/ il.bad]

RECURSIVE free_exts(_, _)
\* lysc_ext_instance_free on every instance of the array of a node being freed
free_exts(h, arr) ==
    IF arr = <<>> THEN h
    ELSE free_exts(IF IsMountPoint(Head(arr)) THEN schema_mount_free(h, Head(arr).data) ELSE h,
                   Tail(arr))

HasMountPoint(n) == \E u \in 1..Len(exts[n]) : IsMountPoint(exts[n][u])

\* node n is removed from the compiled tree and its extension instances are freed;
\* after a failed compilation the whole module is freed, in the order of the tree
FreeNode(n) ==
    /\ Taken /\ AllIdle
    /\ n \in alive
    /\ HasMountPoint(n)
    /\ aborted => \A m \in alive : HasMountPoint(m) => n <= m
    /\ LET h == free_exts([shared |-> shared, liveCtx |-> liveCtx, memErr |-> memErr], exts[n])
       IN /\ shared' = h.shared
          /\ liveCtx' = h.liveCtx
          /\ memErr' = h.memErr
    /\ alive' = alive \ {n}
    /\ exts' = [exts EXCEPT ![n] = <<>>]
    /\ inline_ok' = [inline_ok EXCEPT ![n] = 0]
    /\ inline_given' = [inline_given EXCEPT ![n] = {}]
    /\ shared_given' = [b \in Node |-> IF shared'[b].state = "live" THEN shared_given[b] ELSE {}]
    /\ UNCHANGED <<version, aborted, nctx, last_compile, last_ret, pc, fr>>
    /\ UNCHANGED <<logvars, libvars>>

Free == \E n \in Node : FreeNode(n)

\* ------------------------------------------------------------------ ext data
CidOpt == ContentId \cup {NoId}

\* what the get_ext_data callback can hand back: the yang-library and schema-mount
\* operational data, reduced to what the plugin reads from it
ExtData == {ed \in [new : BOOLEAN,              \* a top-level node carries LYD_NEW
                    mount_point : BOOLEAN,      \* the mount-point[module][label] entry exists
                    shared_schema : BOOLEAN,    \* ... and has a shared-schema child
                    inln : BOOLEAN,             \* ... and has an inline child
                    content_id : CidOpt,        \* /yang-library/content-id
                    module_set_id : CidOpt] :   \* /modules-state/module-set-id
              ~ed.mount_point => (~ed.shared_schema /\ ~ed.inln)}

NullExtData == [new |-> FALSE, mount_point |-> FALSE, shared_schema |-> FALSE,
                inln |-> FALSE, content_id |-> NoId, module_set_id |-> NoId]

\* schema_mount_get_smount: the return code and the value written to *shared
schema_mount_get_smount(is_null, ed, oom) ==
    IF oom THEN [r |-> "LY_EMEM", shared |-> FALSE, logged |-> TRUE]
    ELSE IF is_null \/ ~ed.mount_point THEN [r |-> "LY_ENOT", shared |-> FALSE, logged |-> FALSE]
    ELSE IF ~ed.shared_schema
         THEN IF ~ed.inln THEN [r |-> "LY_EINT", shared |-> FALSE, logged |-> TRUE]
              ELSE [r |-> "LY_SUCCESS", shared |-> FALSE, logged |-> FALSE]
    ELSE [r |-> "LY_SUCCESS", shared |-> TRUE, logged |-> FALSE]

\* the config leaf of a mount-point entry: absent, or present with one of its values
ConfigLeaf == {"absent", "true", "false"}

\* a test that takes every present leaf for "false"
config_leaf_present(leaf) == leaf # "absent"

\* "!lyd_find_path(mpoint, "config", 0, &node) && !strcmp(lyd_get_value(node), "false")"
config_leaf_false(leaf) == leaf # "absent" /\ leaf = "false"

\* schema_mount_get_smount with the config leaf of the entry: the return code and
\* what the call wrote to *config and *shared ("unset": nothing)
get_smount(is_null, ed, leaf, oom) ==
    LET sm == schema_mount_get_smount(is_null, ed, oom) IN
    [r |-> sm.r,
     config |-> IF sm.r \in {"LY_EMEM", "LY_ENOT"} THEN "unset"
                ELSE IF config_leaf_false(leaf) THEN "0" ELSE "1",
     shared |-> IF sm.r # "LY_SUCCESS" THEN "unset" ELSE IF sm.shared THEN "1" ELSE "0"]

\* the ext data the callback can hand to a call, the config leaf of the entry
\* included, and whether asprintf runs out of memory
SmountInputs ==
    {[is_null |-> TRUE, ed |-> NullExtData, config |-> "absent", oom |-> o] : o \in BOOLEAN}
      \cup {x \in [is_null : {FALSE}, ed : ExtData, config : ConfigLeaf, oom : BOOLEAN] :
                ~x.ed.mount_point => x.config = "absent"}

\* the callback hands ext data to the caller of schema_mount_get_smount
SmountExtData ==
    /\ smount.status = "idle"
    /\ \E x \in SmountInputs :
        smount' = [status |-> "called", is_null |-> x.is_null, ed |-> x.ed,
                   config |-> x.config, oom |-> x.oom, out |-> <<>>]
    /\ UNCHANGED <<smvars, logvars, yin, lyd_val, sm_log, imp, yin_arg, printed>>

\* schema_mount_get_smount runs on them
GetSmount ==
    /\ smount.status = "called"
    /\ smount' = [smount EXCEPT
                    !.status = "done",
                    !.out = <<get_smount(smount.is_null, smount.ed, smount.config,
                                         smount.oom)>>]
    /\ UNCHANGED <<smvars, logvars, yin, lyd_val, sm_log, imp, yin_arg, printed>>

\* a lookup that tries the module-set-id first
module_set_id_first(is_null, ed) ==
    IF is_null THEN NoId
    ELSE IF ed.module_set_id # NoId THEN ed.module_set_id
    ELSE ed.content_id

\* the content-id or, without one, the module-set-id (schema_mount_get_ctx_shared)
get_content_id(is_null, ed) ==
    IF is_null THEN NoId
    ELSE IF ed.content_id # NoId THEN ed.content_id
    ELSE ed.module_set_id

\* ------------------------------------------------------------------ threads
\* the extension instance thread t was called with
ExtOf(t) == exts[fr[t].node][fr[t].idx]

\* the shared block of that instance (sm_data->shared)
BlockOf(t) == ExtOf(t).data.shared

\* thread t holds the mutex of some shared block
HoldsLock(t) == \E b \in Node : shared[b].state = "live" /\ shared[b].lock = t

\* a call that is made under the mutex wherever it is made
CallUnderLock(t, fn) == [fn |-> fn, locked |-> TRUE]

\* a call that leaves the plugin, and whether the calling thread held a mutex
Call(t, fn) == [fn |-> fn, locked |-> HoldsLock(t)]

\* "if (ext_data_free) lyd_free_all(ext_data)" at the cleanup label
cleanup(is_null, ext_data_free) ==
    IF is_null THEN "null" ELSE IF ext_data_free THEN "freed" ELSE "live"

\* the struct ly_ctx that ly_ctx_new_yldata allocates: one that no caller was ever
\* given (a context destroyed again before the call returns leaves no trace)
new_context == nctx + 1

\* threads that are inside a call and may still construct a context
InFlight == Cardinality({t \in Thread : pc[t] # "idle"})

\* a loop that finds the flag on no node
new_flag_ignored(is_null, new) == FALSE

\* the loop "LY_LIST_FOR(ext_data, iter) if (iter->flags & LYD_NEW)": some top-level
\* node of the ext data carries LYD_NEW
has_new_flag(is_null, new) == ~is_null /\ new

\* the ext data a call was handed and the ext_data_free that came with them
GivenExtData(is_null, new, ext_data_free) ==
    <<[new |-> ~is_null /\ new, ext_data_free |-> ext_data_free]>>

\* what schema_mount_get_ctx on instance u of node n gives back: path names the
\* return statement taken, old is the shared cache as the locked part found it, given
\* is the ext data of a call that returned before it reached the shared or the
\* inline part
GetCtxResult(n, u, content_id, path, old, ret, ext_ctx, ext_data, calls) ==
    [op |-> "get_ctx", node |-> n, idx |-> u, content_id |-> content_id, path |-> path,
     old |-> old, ret |-> ret, ext_ctx |-> IF ret = "LY_SUCCESS" THEN ext_ctx ELSE 0,
     ext_data |-> ext_data, calls |-> calls, siblings |-> "untouched", given |-> <<>>]

\* schema_mount_get_ctx returns to its caller (after its cleanup label)
Finish(t, result) ==
    /\ pc' = [pc EXCEPT ![t] = "idle"]
    /\ fr' = [fr EXCEPT ![t] = NoFrame]
    /\ last_ret' = result

\* schema_mount_get_ctx up to the point where it touches the extension's state:
\* the callback, the LYD_NEW check, schema_mount_get_smount, and then the start of
\* schema_mount_get_ctx_shared (the lookup of the content-id) or of
\* schema_mount_get_ctx_inline ("i = sm_data->inln.schema_count")
GetCtxEnter(t, n, u, cb_fail, is_null, ed, edfree, oom) ==
    /\ Taken
    /\ pc[t] = "idle"
    /\ ~aborted
    /\ n \in alive /\ u <= Len(exts[n])
    /\ IsMountPoint(exts[n][u]) /\ exts[n][u].data.state = "valid"
    /\ nctx + InFlight < MaxCtx
    /\ LET sm == schema_mount_get_smount(is_null, ed, oom)
           cid == get_content_id(is_null, ed)
           unvalidated == has_new_flag(is_null, ed.new)
           ret == IF cb_fail THEN "LY_EINVAL"
                  ELSE IF unvalidated THEN "LY_EINVAL"
                  ELSE IF sm.r # "LY_SUCCESS" THEN sm.r
                  ELSE IF sm.shared /\ cid = NoId THEN "LY_EVALID"
                  ELSE "LY_SUCCESS"
           logs == ~cb_fail /\ (unvalidated \/ (sm.r # "LY_SUCCESS" /\ sm.logged)
                                \/ (sm.r = "LY_SUCCESS" /\ sm.shared /\ cid = NoId))
           calls == {Call(t, "lyplg_ext_get_data")}
                        \cup (IF logs THEN {Call(t, "lyplg_ext_log")} ELSE {})
       IN
       IF ret # "LY_SUCCESS"
       THEN /\ Finish(t, [GetCtxResult(n, u, NoId, "none", <<>>, ret, 0,
                                       IF cb_fail THEN "null" ELSE cleanup(is_null, edfree),
                                       calls)
                             EXCEPT !.given = IF cb_fail THEN <<>>
                                              ELSE GivenExtData(is_null, ed.new, edfree)])
       ELSE /\ pc' = [pc EXCEPT ![t] = IF sm.shared THEN "lock" ELSE "inline"]
            /\ fr' = [fr EXCEPT ![t] =
                        [node |-> n, idx |-> u, calls |-> calls,
                         content_id |-> IF sm.shared THEN cid ELSE NoId,
                         i |-> IF sm.shared THEN 0 ELSE exts[n][u].data.inln.schema_count]]
            /\ UNCHANGED last_ret
    /\ UNCHANGED <<version, aborted, alive, exts, shared, nctx, liveCtx, memErr, last_compile,
                   inline_ok, inline_given, shared_given>>
    /\ UNCHANGED <<logvars, libvars>>

\* ext data with a mount-point entry for this module and label
EntryData(sh, il, c, m) ==
    [new |-> FALSE, mount_point |-> TRUE, shared_schema |-> sh, inln |-> il,
     content_id |-> c, module_set_id |-> m]

\* the ext data a call can tell apart: what it never reads on its path (the entry
\* of unvalidated data, the content-id of an inline mount point) is left at its default
ReadExtData ==
    {NullExtData, [NullExtData EXCEPT !.new = TRUE]}
        \cup {EntryData(FALSE, il, NoId, NoId) : il \in BOOLEAN}
        \cup {EntryData(TRUE, FALSE, c, m) : c \in CidOpt, m \in CidOpt}

Input(cb_fail, is_null, ed, edfree, oom) ==
    [cb_fail |-> cb_fail, is_null |-> is_null, ed |-> ed, edfree |-> edfree, oom |-> oom]

\* the call goes on to the shared or the inline part
Proceeds(ed) == ed.mount_point /\ (ed.shared_schema => get_content_id(FALSE, ed) # NoId)
                               /\ (~ed.shared_schema => ed.inln)

\* the inputs of one call: the callback's verdict, the data it hands back, whether
\* the plugin is to free them (ext_data_free, which nothing reads before the cleanup
\* label: for a call that goes on, it is drawn there), and whether asprintf runs out
\* of memory
EnterInputs ==
    {Input(TRUE, TRUE, NullExtData, FALSE, FALSE)}
        \cup {Input(FALSE, TRUE, NullExtData, f, o) : f \in BOOLEAN, o \in BOOLEAN}
        \cup {Input(FALSE, FALSE, ed, f, FALSE) :
                    ed \in {e \in ReadExtData : ~Proceeds(e)}, f \in BOOLEAN}
        \cup {Input(FALSE, FALSE, ed, FALSE, FALSE) : ed \in {e \in ReadExtData : Proceeds(e)}}
        \cup {Input(FALSE, FALSE, NullExtData, f, TRUE) : f \in BOOLEAN}

Enter == \E t \in Thread :
    /\ Taken /\ pc[t] = "idle" /\ ~aborted /\ nctx + InFlight < MaxCtx
    /\ \E n \in alive : \E u \in 1..Len(exts[n]) :
        /\ IsMountPoint(exts[n][u]) /\ exts[n][u].data.state = "valid"
        /\ \E x \in EnterInputs :
            GetCtxEnter(t, n, u, x.cb_fail, x.is_null, x.ed, x.edfree, x.oom)

\* ------------------------------------------------------------------ shared
\* a lock that excludes nobody
mutex_ignored(lock) == TRUE

\* pthread_mutex_lock returns only once no thread holds the mutex
mutex_free(lock) == lock = 0

\* a search that finds nothing
never_found(schemas, schema_count, argument) == schema_count

\* "try to find this mount point": the loop over the first schema_count entries; the
\* value of i it ends with (array indices of the code, counted from 0)
find_mount_point(schemas, schema_count, argument) ==
    IF \E i \in 0..(schema_count - 1) : schemas[i + 1].mount_point = argument
    THEN CHOOSE i \in 0..(schema_count - 1) :
            /\ schemas[i + 1].mount_point = argument
            /\ \A j \in 0..(i - 1) : schemas[j + 1].mount_point # argument
    ELSE schema_count

\* a comparison that takes every content-id for the stored one
never_differs(content_id, stored) == FALSE

\* strcmp(content_id, schemas[i].content_id) != 0
content_id_differs(content_id, stored) == content_id # stored

\* realloc(schemas, count * sizeof *schemas): the first count entries, entries the
\* array did not have are uninitialised
realloc(schemas, count, uninit) ==
    [k \in 1..count |-> IF k <= Len(schemas) THEN schemas[k] ELSE uninit]

UninitShared == [ctx |-> 0, mount_point |-> "none", content_id |-> NoId]
UninitInln == [ctx |-> 0]

\* a locked part that fetches the ext data again
locked_calls_refetch(t, path) ==
    {[fn |-> fn, locked |-> HoldsLock(t)] :
        fn \in {"lyplg_ext_get_data", "ly_ctx_new_yldata", "lyplg_ext_log"}}

\* the functions the locked part calls on each of its paths
locked_calls(t, path) ==
    {Call(t, fn) : fn \in
        CASE path = "hit" -> {}
          [] path = "differs" -> {"lyplg_ext_log"}
          [] path = "create_failed" -> {"ly_ctx_new_yldata", "lyplg_ext_log"}
          [] path = "realloc_failed" -> {"ly_ctx_new_yldata", "lyplg_ext_log"}
          [] OTHER -> {"ly_ctx_new_yldata"}}

\* error paths that return without passing the cleanup label
unlock_on_success(path) == path \in {"hit", "created"}

\* whether a path of the locked part passes the cleanup label, where the mutex is
\* released
reaches_unlock(path) == TRUE

\* pthread_mutex_unlock at the cleanup label of schema_mount_get_ctx_shared
unlock(sh, b, path) ==
    IF reaches_unlock(path) THEN [sh EXCEPT ![b].lock = 0] ELSE sh

\* the code schema_mount_get_ctx_shared returns on each path
shared_ret(path) ==
    CASE path = "differs" -> "LY_EVALID"
      [] path = "create_failed" -> "LY_EINVAL"
      [] path = "realloc_failed" -> "LY_EMEM"
      [] path = "lock_failed" -> "LY_ESYS"
      [] OTHER -> "LY_SUCCESS"

\* schema_mount_get_ctx_shared from pthread_mutex_lock to the test
\* "i < sm_data->shared->schema_count": the mutex is taken and the cache is searched;
\* lock_fail: the lock call returns an error and the function returns at once
SharedLock(t, lock_fail, edfree) ==
    /\ Taken
    /\ pc[t] = "lock"
    /\ LET b == BlockOf(t)
           i == find_mount_point(shared[b].schemas, shared[b].schema_count, ExtOf(t).argument)
       IN
       IF lock_fail
       THEN /\ Finish(t, GetCtxResult(fr[t].node, fr[t].idx, fr[t].content_id, "lock_failed",
                                      <<>>, shared_ret("lock_failed"), 0, cleanup(FALSE, edfree),
                                      fr[t].calls \cup {Call(t, "lyplg_ext_log")}))
            /\ UNCHANGED shared
       ELSE /\ ~edfree
            /\ mutex_free(shared[b].lock)
            /\ shared' = [shared EXCEPT ![b].lock = t]
            /\ fr' = [fr EXCEPT ![t].i = i]
            /\ pc' = [pc EXCEPT ![t] = IF i < shared[b].schema_count THEN "exists" ELSE "create"]
            /\ UNCHANGED last_ret
    /\ UNCHANGED <<version, aborted, alive, exts, nctx, liveCtx, memErr, last_compile,
                   inline_ok, inline_given, shared_given>>
    /\ UNCHANGED <<logvars, libvars>>

\* the rest of schema_mount_get_ctx_shared, from the branch taken after the search to
\* the return, and the cleanup of schema_mount_get_ctx
SharedBody(t, create_fail, realloc_fail, edfree) ==
    /\ Taken
    /\ pc[t] \in {"exists", "create"}
    /\ pc[t] = "exists" => (~create_fail /\ ~realloc_fail)
    /\ create_fail => ~realloc_fail
    /\ LET b == BlockOf(t)
           blk == shared[b]
           i == fr[t].i
           c == new_context
           path == IF pc[t] = "exists"
                   THEN IF content_id_differs(fr[t].content_id, blk.schemas[i + 1].content_id)
                        THEN "differs" ELSE "hit"
                   ELSE IF create_fail THEN "create_failed"
                   ELSE IF realloc_fail THEN "realloc_failed"
                   ELSE "created"
           entry == [ctx |-> c, mount_point |-> ExtOf(t).argument,
                     content_id |-> fr[t].content_id]
           filled == IF path = "created"
                     THEN [shared EXCEPT
                             ![b].schemas = [realloc(@, i + 1, UninitShared) EXCEPT ![i + 1] = entry],
                             ![b].schema_count = @ + 1]
                     ELSE shared
           ext_ctx == IF path \in {"hit", "created"} THEN filled[b].schemas[i + 1].ctx ELSE 0
           ret == shared_ret(path)
       IN
       /\ shared' = unlock(filled, b, path)
       /\ nctx' = IF path = "created" THEN c ELSE nctx
       /\ liveCtx' = IF path = "created" THEN liveCtx \cup {[ctx |-> c, shared |-> b]}
                     ELSE liveCtx
       /\ shared_given' = IF ret = "LY_SUCCESS"
                          THEN [shared_given EXCEPT ![b] =
                                  @ \cup {[ctx |-> ext_ctx, content_id |-> fr[t].content_id]}]
                          ELSE shared_given
       /\ Finish(t, GetCtxResult(fr[t].node, fr[t].idx, fr[t].content_id, path, blk.schemas,
                                 ret, ext_ctx, cleanup(FALSE, edfree),
                                 fr[t].calls \cup locked_calls(t, path)))
    /\ UNCHANGED <<version, aborted, alive, exts, memErr, last_compile, inline_ok, inline_given>>
    /\ UNCHANGED <<logvars, libvars>>

SharedStep == \E t \in Thread :
    \/ \E lf \in BOOLEAN, edfree \in BOOLEAN : SharedLock(t, lf, edfree)
    \/ \E cf \in BOOLEAN, rf \in BOOLEAN, edfree \in BOOLEAN : SharedBody(t, cf, rf, edfree)

\* ------------------------------------------------------------------ inline
\* sm_data->inln of the instance thread t was called with
InlnOf(t) == ExtOf(t).data.inln

\* schema_mount_get_ctx_inline after "i = sm_data->inln.schema_count":
\* schema_mount_create_ctx, the realloc, the count, the store of the new context at
\* index i, and the return
InlineBody(t, create_fail, realloc_fail, edfree) ==
    /\ Taken
    /\ pc[t] = "inline"
    /\ create_fail => ~realloc_fail
    /\ LET n == fr[t].node
           u == fr[t].idx
           i == fr[t].i
           c == new_context
           path == IF create_fail THEN "create_failed"
                   ELSE IF realloc_fail THEN "realloc_failed" ELSE "inline"
           calls == fr[t].calls \cup {Call(t, "ly_ctx_new_yldata")}
                        \cup (IF path # "inline" THEN {Call(t, "lyplg_ext_log")} ELSE {})
           ret == IF create_fail THEN "LY_EINVAL"
                  ELSE IF realloc_fail THEN "LY_EMEM" ELSE "LY_SUCCESS"
       IN
       /\ IF path = "inline"
          THEN /\ nctx' = c
               /\ liveCtx' = liveCtx \cup {[ctx |-> c, shared |-> 0]}
               /\ exts' = [exts EXCEPT ![n][u].data.inln =
                            [schemas |-> [realloc(@.schemas, i + 1, UninitInln)
                                            EXCEPT ![i + 1] = [ctx |-> c]],
                             schema_count |-> @.schema_count + 1]]
               /\ inline_ok' = [inline_ok EXCEPT ![n] = @ + 1]
               /\ inline_given' = [inline_given EXCEPT ![n] = @ \cup {c}]
          ELSE UNCHANGED <<exts, nctx, liveCtx, inline_ok, inline_given>>
       /\ Finish(t, GetCtxResult(n, u, NoId, path, <<>>, ret, c, cleanup(FALSE, edfree), calls))
    /\ UNCHANGED <<version, aborted, alive, shared, memErr, last_compile, shared_given>>
    /\ UNCHANGED <<logvars, libvars>>

InlineStep == \E t \in Thread, cf \in BOOLEAN, rf \in BOOLEAN, edfree \in BOOLEAN :
    InlineBody(t, cf, rf, edfree)

\* ------------------------------------------------------------------ data tree
\* a top-level subtree lyd_parse_data hands back: no flags, no parent
parsed_subtree(k) == [id |-> k, kind |-> "mounted", flags |-> {}, parent |-> "NULL"]

\* an assignment that leaves the flags as they are
set_no_flag(subtree) == subtree

\* subtree->flags |= LYD_EXT
set_ext_flag(subtree) == [subtree EXCEPT !.flags = @ \cup {"LYD_EXT"}]

\* lyd_insert_sibling(first, node, &first) when it succeeds: the node becomes the
\* last sibling
lyd_insert_sibling(first, node) == Append(first, node)

\* lyd_insert_ext(parent, first): every sibling of first becomes a child of parent
lyd_insert_ext(parent, first) ==
    [i \in DOMAIN first |-> [first[i] EXCEPT !.parent = parent]]

\* ------------------------------------------------------------------ validate
\* schema_mount_dup_parent_ref as far as schema_mount_validate depends on it: its
\* return code and whether it logged; dup: how the duplication of the parent
\* references ends ("refs": some were duplicated, "none": there were none,
\* "LY_EMEM": asprintf failed, "failed": a library call returned an error)
schema_mount_dup_parent_ref(is_null, dup) ==
    IF is_null THEN [ret |-> "LY_EINVAL", logged |-> TRUE, count |-> 0]
    ELSE IF dup = "LY_EMEM" THEN [ret |-> "LY_EMEM", logged |-> TRUE, count |-> 0]
    ELSE IF dup = "failed" THEN [ret |-> "LY_EINVAL", logged |-> FALSE, count |-> 0]
    ELSE [ret |-> "LY_SUCCESS", logged |-> FALSE, count |-> IF dup = "refs" THEN 1 ELSE 0]

\* the mounted siblings as schema_mount_parse left them: count top-level subtrees
\* under the mount point's parent, each with LYD_EXT
mounted_siblings(count) ==
    [i \in 1..count |-> [id |-> i, kind |-> "mounted", flags |-> {"LYD_EXT"},
                         parent |-> "parent"]]

\* a top-level duplicate of a parent reference, as the ref_set holds it
ref_subtree == [id |-> 0, kind |-> "ref", flags |-> {}, parent |-> "NULL"]

\* lyd_unlink_siblings(sibling)
lyd_unlink_siblings(sibling) ==
    [i \in DOMAIN sibling |-> [sibling[i] EXCEPT !.parent = "NULL"]]

\* a loop that leaves the flags as they are
keep_ext_flags(sibling) == sibling

\* iter->flags &= ~LYD_EXT on every sibling
clear_ext_flags(sibling) ==
    [i \in DOMAIN sibling |-> [sibling[i] EXCEPT !.flags = @ \ {"LYD_EXT"}]]

\* the loop that frees the subtrees of the ref_set and steps sibling over them
free_ref_set(sibling) == SelectSeq(sibling, LAMBDA d : d.kind # "ref")

\* iter->flags |= LYD_EXT on every sibling
restore_ext_flags(sibling) ==
    [i \in DOMAIN sibling |-> [sibling[i] EXCEPT !.flags = @ \cup {"LYD_EXT"}]]

\* schema_mount_validate called by thread t with the inputs x: what it returns, what
\* is left of the ext data, the calls it made that leave the plugin, the tree it
\* handed to lyd_validate_all, the state it leaves the mounted siblings in (tree),
\* the duplicates it neither freed nor left in a tree (leaked), the duplicates
\* that were in the ref_set when lyd_validate_all was called (refs) and the ext data
\* the callback handed to it (given)
schema_mount_validate(t, x) ==
    LET get == Call(t, "lyplg_ext_get_data")
        log == Call(t, "lyplg_ext_log")
        val == Call(t, "lyd_validate_all")
        dup == schema_mount_dup_parent_ref(x.is_null, x.dup)
        freed == cleanup(x.is_null, x.edfree)
        outer == mounted_siblings(x.count)
        unlinked == clear_ext_flags(lyd_unlink_siblings(outer))
        accessible == IF dup.count > 0 THEN lyd_insert_sibling(unlinked, ref_subtree)
                      ELSE unlinked
        restored == lyd_insert_ext("parent", restore_ext_flags(free_ref_set(accessible)))
        Result(ret, ext_data, calls, siblings, validated, tree, leaked) ==
            [op |-> "validate", ret |-> ret, ext_data |-> ext_data, calls |-> calls,
             siblings |-> siblings, validated |-> validated, tree |-> tree,
             leaked |-> leaked, count |-> x.count,
             refs |-> IF \E c \in calls : c.fn = "lyd_validate_all" THEN dup.count ELSE 0,
             given |-> IF x.sibling_null \/ x.cb_fail THEN <<>>
                       ELSE GivenExtData(x.is_null, x.new, x.edfree)]
    IN
    IF x.sibling_null THEN Result("LY_EINT", "null", {log}, "untouched", <<>>, <<>>, 0)
    ELSE IF x.cb_fail THEN Result("LY_EINVAL", "null", {get}, "untouched", <<>>, outer, 0)
    ELSE IF has_new_flag(x.is_null, x.new)
         THEN Result("LY_EINVAL", freed, {get, log}, "untouched", <<>>, outer, 0)
    ELSE IF dup.ret # "LY_SUCCESS"
         THEN Result(dup.ret, freed, {get} \cup (IF dup.logged THEN {log} ELSE {}),
                     "untouched", <<>>, outer, 0)
    ELSE IF dup.count > 0 /\ x.insert_fail
         THEN Result("LY_EINVAL", freed, {get}, "unlinked", <<>>, unlinked, dup.count)
    ELSE IF x.val_ret # "LY_SUCCESS"
         THEN Result(x.val_ret, freed, {get, val, log}, "restored", accessible, restored, 0)
    ELSE Result("LY_SUCCESS", freed, {get, val}, "restored", accessible, restored, 0)

ValidateInput(sibling_null, cb_fail, is_null, new, edfree, dup, insert_fail, val_ret, count) ==
    [sibling_null |-> sibling_null, cb_fail |-> cb_fail, is_null |-> is_null, new |-> new,
     edfree |-> edfree, dup |-> dup, insert_fail |-> insert_fail, val_ret |-> val_ret,
     count |-> count]

\* the inputs of one validate call; what a path does not read is left at its default
ValidateInputs ==
    {ValidateInput(TRUE, FALSE, TRUE, FALSE, FALSE, "none", FALSE, "LY_SUCCESS", 0),
     ValidateInput(FALSE, TRUE, TRUE, FALSE, FALSE, "none", FALSE, "LY_SUCCESS", 1)}
      \cup {ValidateInput(FALSE, FALSE, TRUE, FALSE, f, "none", FALSE, "LY_SUCCESS", 1) :
                f \in BOOLEAN}
      \cup {ValidateInput(FALSE, FALSE, FALSE, TRUE, f, "none", FALSE, "LY_SUCCESS", 1) :
                f \in BOOLEAN}
      \cup {ValidateInput(FALSE, FALSE, FALSE, FALSE, f, d, FALSE, "LY_SUCCESS", 1) :
                f \in BOOLEAN, d \in {"LY_EMEM", "failed"}}
      \cup {ValidateInput(FALSE, FALSE, FALSE, FALSE, f, "refs", TRUE, "LY_SUCCESS", c) :
                f \in BOOLEAN, c \in 1..MaxSubtrees}
      \cup {ValidateInput(FALSE, FALSE, FALSE, FALSE, f, d, FALSE, v, c) :
                f \in BOOLEAN, d \in {"refs", "none"}, v \in {"LY_SUCCESS", "LY_EVALID"},
                c \in 1..MaxSubtrees}

\* data can have been parsed for the instance u of node n: a context was handed out
\* for its mount point
Mounted(n, u) ==
    inline_ok[n] > 0 \/ shared_given[exts[n][u].data.shared] # {}

\* thread t validates the data mounted at the instance u of node n; the call works
\* on the caller's data tree only, so it is taken while no other call is under way:
\* its interleavings with them add no behaviour
ValidateCall(t, n, u, x) ==
    /\ Taken
    /\ AllIdle
    /\ ~aborted
    /\ n \in alive /\ u <= Len(exts[n])
    /\ IsMountPoint(exts[n][u]) /\ exts[n][u].data.state = "valid"
    /\ Mounted(n, u)
    /\ last_ret' = schema_mount_validate(t, x)
    /\ UNCHANGED <<version, aborted, alive, exts, shared, nctx, liveCtx, memErr, last_compile,
                   inline_ok, inline_given, shared_given, pc, fr>>
    /\ UNCHANGED <<logvars, libvars>>

Validate ==
    /\ Taken /\ AllIdle /\ ~aborted
    /\ \E t \in Thread : \E n \in alive : \E u \in 1..Len(exts[n]) :
        /\ IsMountPoint(exts[n][u]) /\ exts[n][u].data.state = "valid"
        /\ Mounted(n, u)
        /\ \E x \in ValidateInputs : ValidateCall(t, n, u, x)

\* ------------------------------------------------------------------ parse
\* the do-while loop of schema_mount_parse from its k-th pass on: results[k] is what
\* the k-th lyd_parse_data call returns; the loop ends on a return code other than
\* LY_ENOT ("more data follows")
RECURSIVE parse_loop(_, _, _)
parse_loop(results, k, first) ==
    LET r == results[k] IN
    IF r # "LY_SUCCESS" /\ r # "LY_ENOT"
    THEN [r |-> r, first |-> first, parsed |-> k - 1]
    ELSE LET next == lyd_insert_sibling(first, set_ext_flag(parsed_subtree(k))) IN
         IF r = "LY_ENOT" /\ k < Len(results)
         THEN parse_loop(results, k + 1, next)
         ELSE [r |-> r, first |-> next, parsed |-> k]

\* a cleanup that frees nothing
free_nothing(first) == 0

\* lyd_free_siblings(first): the subtrees freed
lyd_free_siblings(first) == Len(first)

\* schema_mount_parse continuing from the result g of its schema_mount_get_ctx call:
\* the return code, the subtrees lyd_parse_data handed back, the data tree it leaves
\* under the parent, the subtrees it freed, the messages it logged, the calls
\* its schema_mount_get_ctx made and what its lyd_parse_data calls returned (results,
\* empty when it made none)
schema_mount_parse(g, x) ==
    LET loop == parse_loop(x.results, 1, <<>>)
        Result(ret, parsed, tree, freed, logged) ==
            [op |-> "parse", node |-> g.node, idx |-> g.idx, ret |-> ret,
             parsed |-> parsed, tree |-> tree, freed |-> freed, logged |-> logged,
             calls |-> g.calls,
             results |-> IF g.ret # "LY_SUCCESS" THEN <<>> ELSE x.results]
    IN
    IF g.ret # "LY_SUCCESS" THEN Result(g.ret, 0, <<>>, 0, {})
    ELSE IF loop.r # "LY_SUCCESS"
         THEN Result("LY_ENOT", loop.parsed, <<>>, lyd_free_siblings(loop.first), {"LY_LLVRB"})
    ELSE IF x.insert_fail
         THEN Result("LY_EINVAL", loop.parsed, <<>>, lyd_free_siblings(loop.first), {"LY_LLERR"})
    ELSE Result("LY_SUCCESS", loop.parsed, lyd_insert_ext("parent", loop.first), 0, {})

\* what the lyd_parse_data calls of one parse return: LY_ENOT for every subtree that
\* is followed by more data, then LY_SUCCESS or an error
ParseResults ==
    UNION {{[i \in 1..n |-> IF i < n THEN "LY_ENOT" ELSE last] :
                last \in {"LY_SUCCESS", "LY_EVALID"}} : n \in 1..MaxSubtrees}

\* the inputs of one parse; what a path does not read is left at its default
ParseInputs(g) ==
    IF g.ret # "LY_SUCCESS" THEN {[results |-> <<"LY_SUCCESS">>, insert_fail |-> FALSE]}
    ELSE {[results |-> rs, insert_fail |-> f] : rs \in ParseResults, f \in BOOLEAN}
            \ {[results |-> rs, insert_fail |-> TRUE] :
                   rs \in {q \in ParseResults : q[Len(q)] # "LY_SUCCESS"}}

\* the schema_mount_get_ctx call that just returned was made by schema_mount_parse,
\* which goes on with its result; what follows works on the caller's data only, so
\* it is taken while no other call is under way: its interleavings with them add no
\* behaviour
Parse ==
    /\ last_ret.op = "get_ctx"
    /\ last_compile = NoCompile
    /\ AllIdle
    /\ \E x \in ParseInputs(last_ret) : last_ret' = schema_mount_parse(last_ret, x)
    /\ UNCHANGED <<version, aborted, alive, exts, shared, nctx, liveCtx, memErr, last_compile,
                   inline_ok, inline_given, shared_given, pc, fr>>
    /\ UNCHANGED <<logvars, libvars>>

\* ------------------------------------------------------------------ logger options
\* a & b on option bitfields
BitAnd(a, b) ==
    ((a % 2) * (b % 2))
      + 2 * (((a \div 2) % 2) * ((b \div 2) % 2))
      + 4 * (((a \div 4) % 2) * ((b \div 4) % 2))

\* the options thread t logs with: its temporary ones when set, else the process-wide
effective_opts(t) ==
    IF temp_log_opts[t] # <<>> THEN temp_log_opts[t][1] ELSE ly_log_opts

\* a call that hands back the options it has just installed
installed_options(old, new) == new

\* the return value of ly_log_options: the previous options
previous_options(old, new) == old

\* ly_log_options(opts)
ly_log_options(opts) ==
    /\ ly_log_opts' = opts
    /\ opts_ret' = <<previous_options(ly_log_opts, opts)>>
    /\ UNCHANGED <<ly_ll, temp_log_opts, errlist, eitems, err_events, last_step>>
    /\ UNCHANGED <<smvars, libvars>>

\* an override kept in one variable for all threads
set_for_all_threads(temp, t, opts) == [u \in DOMAIN temp |-> opts]

\* the temporary options are thread-local: only the caller's are set
set_thread_local(temp, t, opts) == [temp EXCEPT ![t] = opts]

\* ly_temp_log_options(opts) called by thread t; opts is <<>> for NULL
ly_temp_log_options(t, opts) ==
    /\ temp_log_opts' = set_thread_local(temp_log_opts, t, opts)
    /\ last_step' = <<>>
    /\ UNCHANGED <<ly_ll, ly_log_opts, opts_ret, errlist, eitems, err_events>>
    /\ UNCHANGED <<smvars, libvars>>

\* ly_log_level(level)
ly_log_level(level) ==
    /\ ly_ll' = level
    /\ last_step' = <<>>
    /\ UNCHANGED <<ly_log_opts, temp_log_opts, opts_ret, errlist, eitems, err_events>>
    /\ UNCHANGED <<smvars, libvars>>

SetLogOptions == \E opts \in LogOpts : ly_log_options(opts)

SetTempLogOptions ==
    \E t \in LogThread : \E opts \in TempOpts : ly_temp_log_options(t, opts)

SetLogLevel == \E level \in LogLevel : ly_log_level(level)

\* ------------------------------------------------------------------ error records
\* the messages the library generates: an error with a path and an app-tag, an
\* error without, a warning, a verbose and a debug message
LogEvents ==
    {[level |-> LY_LLERR, no |-> "LY_EVALID", vecode |-> "LYVE_DATA", msg |-> "m1",
      path |-> "/a", apptag |-> "tag1"],
     [level |-> LY_LLERR, no |-> "LY_EINVAL", vecode |-> "LYVE_SUCCESS", msg |-> "m2",
      path |-> "", apptag |-> ""],
     [level |-> LY_LLWRN, no |-> "LY_SUCCESS", vecode |-> "LYVE_SUCCESS", msg |-> "m3",
      path |-> "/c", apptag |-> ""],
     [level |-> LY_LLVRB, no |-> "LY_SUCCESS", vecode |-> "LYVE_SUCCESS", msg |-> "m4",
      path |-> "", apptag |-> ""],
     [level |-> LY_LLDBG, no |-> "LY_SUCCESS", vecode |-> "LYVE_SUCCESS", msg |-> "m5",
      path |-> "", apptag |-> ""]}

\* one slot for all threads of a context
key_per_context(t, c) == <<"thr1", c>>

\* the error records are kept per thread and per context
errlist_key(t, c) == <<t, c>>

\* the records reached from record id over next pointers (at most fuel of them)
RECURSIVE follow(_, _, _)
follow(items, id, fuel) ==
    IF id = 0 \/ fuel = 0 THEN <<>>
    ELSE <<id>> \o follow(items, items[id].next, fuel - 1)

\* the chain of thread t in context c, first record first
Chain(t, c) == follow(eitems, errlist[errlist_key(t, c)], MaxErrs + 1)

\* every level counts as one to store
any_level(level) == TRUE

\* errors and warnings are stored, verbose and debug messages are not
is_stored_level(level) == level < LY_LLVRB

\* the options never ask for the last record only
never_store_last(opts) == FALSE

\* LY_LOSTORE_LAST: both of its bits are set
is_store_last(opts) == BitAnd(opts, LY_LOSTORE_LAST) = LY_LOSTORE_LAST

\* LY_LOSTORE: its bit is set (it is one of the bits of LY_LOSTORE_LAST)
is_store(opts) == BitAnd(opts, LY_LOSTORE) # 0

\* malloc of a struct ly_err_item: an identity that is not in use (0: there is none)
malloc_item(items) ==
    IF \E i \in ItemId : ~items[i].used
    THEN CHOOSE i \in ItemId : ~items[i].used /\ \A j \in ItemId : j < i => items[j].used
    ELSE 0

\* the record filled in for message e of thread t on context c
filled(e, t, c, next, prev) ==
    [used |-> TRUE, level |-> e.level, no |-> e.no, vecode |-> e.vecode, msg |-> e.msg,
     path |-> e.path, apptag |-> e.apptag, next |-> next, prev |-> prev,
     thr |-> t, ctx |-> c]

\* an append that leaves the first record's prev as it was
tail_not_linked(items, first, n) == items

\* the first record's prev points to the new last record
link_tail(items, first, n) == [items EXCEPT ![first].prev = n]

\* storing message e of thread t on context c under the options opts: the first
\* record of an empty chain, the overwritten last record under LY_LOSTORE_LAST, a
\* record appended behind the last one otherwise
log_store(first, items, e, t, c, opts) ==
    LET n == malloc_item(items) IN
    IF first = 0
    THEN [first |-> n, items |-> [items EXCEPT ![n] = filled(e, t, c, 0, n)]]
    ELSE LET last == items[first].prev IN
         IF is_store_last(opts)
         THEN [first |-> first,
               items |-> [items EXCEPT
                              ![last] = filled(e, t, c, items[last].next, items[last].prev)]]
         ELSE [first |-> first,
               items |-> link_tail([items EXCEPT ![n] = filled(e, t, c, 0, last),
                                                 ![last].next = n], first, n)]

\* message e of thread t on context c needs a new record
allocates(first, e, t) ==
    /\ e.level <= ly_ll
    /\ is_stored_level(e.level)
    /\ is_store(effective_opts(t))
    /\ (first = 0 \/ ~is_store_last(effective_opts(t)))

\* thread t generates message e on context c: a message above the verbosity level
\* is dropped, an error or a warning is stored when the options of the thread say so
log_message(t, c, e) ==
    LET k == errlist_key(t, c)
        first == errlist[k]
        stored == log_store(first, eitems, e, t, c, effective_opts(t))
    IN
    /\ allocates(first, e, t) => malloc_item(eitems) # 0
    /\ IF e.level <= ly_ll /\ is_stored_level(e.level) /\ is_store(effective_opts(t))
       THEN /\ errlist' = [errlist EXCEPT ![k] = stored.first]
            /\ eitems' = stored.items
       ELSE UNCHANGED <<errlist, eitems>>
    /\ UNCHANGED <<ly_ll, ly_log_opts, temp_log_opts, opts_ret>>
    /\ UNCHANGED <<smvars, libvars>>

\* a clean that frees every record of the chain
clean_all(first, items, eitem) ==
    [first |-> 0,
     items |-> [i \in ItemId |->
                    IF \E j \in DOMAIN follow(items, first, MaxErrs + 1) :
                           follow(items, first, MaxErrs + 1)[j] = i
                    THEN FreeItem ELSE items[i]]]

\* ly_err_clean(ctx, eitem) on the chain that starts at first; eitem is 0 for NULL:
\* the record before eitem becomes the last one, eitem and the records behind it
\* are freed; all records are freed when eitem is NULL or the first record
ly_err_clean(first, items, eitem) ==
    LET e == IF first = eitem THEN 0 ELSE eitem
        freed == follow(items, IF e # 0 THEN e ELSE first, MaxErrs + 1)
        Freed(i) == \E j \in DOMAIN freed : freed[j] = i
        i0 == CHOOSE i \in ItemId : items[i].used /\ items[i].next = e
    IN
    IF first = 0 THEN [first |-> 0, items |-> items]
    ELSE IF e # 0
    THEN [first |-> first,
          items |-> [i \in ItemId |->
                        IF Freed(i) THEN FreeItem
                        ELSE IF i = i0 /\ i = first
                             THEN [items[i] EXCEPT !.next = 0, !.prev = i0]
                        ELSE IF i = i0 THEN [items[i] EXCEPT !.next = 0]
                        ELSE IF i = first THEN [items[i] EXCEPT !.prev = i0]
                        ELSE items[i]]]
    ELSE [first |-> 0, items |-> [i \in ItemId |-> IF Freed(i) THEN FreeItem ELSE items[i]]]

\* thread t cleans its records of context c from eitem on
err_clean(t, c, eitem) ==
    LET k == errlist_key(t, c)
        cleaned == ly_err_clean(errlist[k], eitems, eitem)
    IN
    /\ errlist' = [errlist EXCEPT ![k] = cleaned.first]
    /\ eitems' = cleaned.items
    /\ UNCHANGED <<ly_ll, ly_log_opts, temp_log_opts, opts_ret>>
    /\ UNCHANGED <<smvars, libvars>>

\* the accessors of the records of thread t in context c
ly_err_first(t, c) == errlist[errlist_key(t, c)]

\* the oldest record taken for the last one
oldest_record(t, c) == errlist[errlist_key(t, c)]

ly_err_last(t, c) ==
    IF ly_err_first(t, c) = 0 THEN 0 ELSE eitems[ly_err_first(t, c)].prev

ly_errmsg(t, c) == IF ly_err_last(t, c) = 0 THEN "" ELSE eitems[ly_err_last(t, c)].msg

ly_errpath(t, c) == IF ly_err_last(t, c) = 0 THEN "" ELSE eitems[ly_err_last(t, c)].path

ly_errapptag(t, c) == IF ly_err_last(t, c) = 0 THEN "" ELSE eitems[ly_err_last(t, c)].apptag

ly_errcode(t, c) ==
    IF ly_err_last(t, c) = 0 THEN "LY_SUCCESS" ELSE eitems[ly_err_last(t, c)].no

ly_vecode(t, c) ==
    IF ly_err_last(t, c) = 0 THEN "LYVE_SUCCESS" ELSE eitems[ly_err_last(t, c)].vecode

\* what a record says of its message
content(r) ==
    [level |-> r.level, no |-> r.no, vecode |-> r.vecode, msg |-> r.msg, path |-> r.path,
     apptag |-> r.apptag]

\* the error-level messages among the messages
ErrorEvents == {e \in LogEvents : e.level = LY_LLERR}

\* a thread generates an error on a context
LogMessage ==
    /\ \E t \in LogThread, c \in LogCtx, e \in ErrorEvents : log_message(t, c, e)
    /\ UNCHANGED <<err_events, last_step>>

\* a thread cleans its records of a context, all of them or from one of them on
ErrClean ==
    /\ \E t \in LogThread, c \in LogCtx :
        \E eitem \in {0} \cup {Chain(t, c)[j] : j \in DOMAIN Chain(t, c)} :
            err_clean(t, c, eitem)
    /\ UNCHANGED <<err_events, last_step>>

\* the chain whose messages are counted
ObsThread == "thr1"
ObsCtx == "ctx1"

\* a message of any level is generated on the observed chain
CountedMessage ==
    \E e \in LogEvents :
        /\ e.level = LY_LLERR => err_events < MaxErrs
        /\ log_message(ObsThread, ObsCtx, e)
        /\ err_events' = IF e.level = LY_LLERR THEN err_events + 1 ELSE err_events
        /\ last_step' = <<[op |-> "message", e |-> e, opts |-> effective_opts(ObsThread), ll |-> ly_ll,
                          len |-> Len(Chain(ObsThread, ObsCtx))]>>

\* the observed chain is cleaned, all of it (pos 0) or from its record at pos on
CountedClean ==
    LET ch == Chain(ObsThread, ObsCtx) IN
    \E pos \in {0} \cup DOMAIN ch :
        /\ err_clean(ObsThread, ObsCtx, IF pos = 0 THEN 0 ELSE ch[pos])
        /\ err_events' = IF pos <= 1 THEN 0 ELSE err_events
        /\ last_step' = <<[op |-> "clean", pos |-> pos,
                           before |-> [j \in DOMAIN ch |-> content(eitems[ch[j]])]]>>

\* ------------------------------------------------------------------ YIN parser
\* the documents: a root element, whether it has the name attribute, and the
\* statements below it, each a well-formed element; the argument of the statement
\* at position i is the i-th value of the document
YinDocuments ==
    {[root |-> "module", named |-> TRUE, stmts |-> st] :
         st \in UNION {[1..n -> YangKeyword] : n \in 0..MaxStmts}}
      \cup {[root |-> r, named |-> TRUE, stmts |-> <<>>] : r \in {"submodule", "container"}}
      \cup {[root |-> "module", named |-> FALSE, stmts |-> <<>>]}

\* the section the first switch of the loop files keyword kw under
Section(kw) ==
    CASE kw \in HeaderKeyword -> Y_MOD_MODULE_HEADER
      [] kw \in LinkageKeyword -> Y_MOD_LINKAGE
      [] kw \in MetaKeyword -> Y_MOD_META
      [] kw \in RevisionKeyword -> Y_MOD_REVISION
      [] OTHER -> Y_MOD_BODY

\* an order check that lets every statement pass
order_ignored(mod_stmt, section) == FALSE

\* CHECK_ORDER(SECTION) fails: the parser is already past the section
order_violated(mod_stmt, section) == mod_stmt > section

\* the first switch of the loop on the keyword of the statement read before:
\* CHECK_ORDER for the header, linkage, meta and revision statements, a plain
\* assignment for the body statements, nothing before the first statement
check_order(kw, mod_stmt) ==
    IF kw = "YANG_NONE" THEN [fail |-> FALSE, mod_stmt |-> mod_stmt]
    ELSE IF kw \in BodyKeyword THEN [fail |-> FALSE, mod_stmt |-> Y_MOD_BODY]
    ELSE IF order_violated(mod_stmt, Section(kw))
         THEN [fail |-> TRUE, mod_stmt |-> mod_stmt]
    ELSE [fail |-> FALSE, mod_stmt |-> Section(kw)]

\* lyxml_get_element on the rest of the document: the next statement, or the end
\* tag of the module (no name), which ends the document
lyxml_get_element(stmts, pos) ==
    IF pos < Len(stmts) THEN [name |-> stmts[pos + 1], pos |-> pos + 1, end |-> FALSE]
    ELSE [name |-> "NULL", pos |-> pos, end |-> TRUE]

\* parse_namespace, parse_prefix and parse_text_element store the argument through
\* the pointer they are given, whatever it pointed to
store_argument(old, new) == new

\* the second switch of the loop on the keyword of the statement just read, whose
\* argument is arg: the statements it parses and the LY_EVALID of its default
parse_stmt(kw, arg, mod) ==
    CASE kw = "namespace" ->
            [ret |-> "LY_SUCCESS", mod |-> [mod EXCEPT !.ns = store_argument(@, arg)]]
      [] kw = "prefix" ->
            [ret |-> "LY_SUCCESS", mod |-> [mod EXCEPT !.prefix = store_argument(@, arg)]]
      [] kw = "import" ->
            [ret |-> "LY_SUCCESS", mod |-> [mod EXCEPT !.imports = Append(@, arg)]]
      [] kw = "organization" ->
            [ret |-> "LY_SUCCESS", mod |-> [mod EXCEPT !.org = store_argument(@, arg)]]
      [] kw = "contact" ->
            [ret |-> "LY_SUCCESS", mod |-> [mod EXCEPT !.contact = store_argument(@, arg)]]
      [] kw = "description" ->
            [ret |-> "LY_SUCCESS", mod |-> [mod EXCEPT !.dsc = store_argument(@, arg)]]
      [] kw = "reference" ->
            [ret |-> "LY_SUCCESS", mod |-> [mod EXCEPT !.ref = store_argument(@, arg)]]
      [] OTHER -> [ret |-> "LY_EVALID", mod |-> mod]

\* a check that takes every root element for the expected one
any_root(root, expected, refused) == "LY_SUCCESS"

\* the check of the keyword of the root element: the root of the other kind is
\* refused with LY_EINVAL, any other keyword but the expected one with LY_EVALID
check_root(root, expected, refused) ==
    IF root = refused THEN "LY_EINVAL"
    ELSE IF root # expected THEN "LY_EVALID"
    ELSE "LY_SUCCESS"

\* yin_parse_module up to its call of parse_mod, and parse_mod up to its loop; oom:
\* calloc of the parsed module fails, and the jump to cleanup leaves ret as
\* lyxml_get_element set it
yin_parse_module(doc, oom) ==
    LET chk == check_root(doc.root, "module", "submodule")
        ret == IF chk # "LY_SUCCESS" THEN chk
               ELSE IF oom THEN "LY_SUCCESS"
               ELSE IF ~doc.named THEN "LY_ENOTFOUND"
               ELSE "none"
    IN
    [status |-> IF ret = "none" THEN "parsing" ELSE "done",
     root |-> doc.root, named |-> doc.named, stmts |-> doc.stmts, pos |-> 0,
     kw |-> "YANG_NONE", mod_stmt |-> Y_MOD_MODULE_HEADER, mod |-> EmptyModule,
     ret |-> ret, fn |-> "yin_parse_module", oom |-> oom, submod |-> FALSE]

\* yin_parse_submodule: the check of the root, the calloc, and the submodule handed
\* back (the call of parse_submod is commented out)
yin_parse_submodule(doc, oom) ==
    LET chk == check_root(doc.root, "submodule", "module") IN
    [status |-> "done",
     root |-> doc.root, named |-> doc.named, stmts |-> doc.stmts, pos |-> 0,
     kw |-> "YANG_NONE", mod_stmt |-> Y_MOD_MODULE_HEADER, mod |-> EmptyModule,
     ret |-> chk, fn |-> "yin_parse_submodule", oom |-> oom,
     submod |-> (chk = "LY_SUCCESS" /\ ~oom)]

\* what yin_parse_module does with the return code of parse_mod: the parsed module
\* is attached on success and freed otherwise
yin_return(y, ret, mod) ==
    [y EXCEPT !.status = "done", !.ret = ret,
              !.mod = [mod EXCEPT !.parsed = (ret = "LY_SUCCESS")]]

\* one pass of the loop of parse_mod
parse_mod(y) ==
    LET chk == check_order(y.kw, y.mod_stmt)
        el == lyxml_get_element(y.stmts, y.pos)
        st == parse_stmt(el.name, el.pos, y.mod)
        read == [y EXCEPT !.mod_stmt = chk.mod_stmt, !.pos = el.pos]
    IN
    IF chk.fail THEN yin_return(y, "LY_EVALID", y.mod)
    ELSE IF el.end THEN yin_return(read, "LY_SUCCESS", y.mod)
    ELSE IF st.ret # "LY_SUCCESS" THEN yin_return([read EXCEPT !.kw = el.name], st.ret, y.mod)
    ELSE [read EXCEPT !.kw = el.name, !.mod = st.mod]

\* a document is handed to yin_parse_module; when calloc fails nothing below the
\* root is read
YinParseModule ==
    /\ yin.status = "idle"
    /\ \/ \E doc \in YinDocuments : yin' = yin_parse_module(doc, FALSE)
       \/ yin' = yin_parse_module([root |-> "module", named |-> TRUE, stmts |-> <<>>], TRUE)
    /\ UNCHANGED <<smvars, logvars, lyd_val, sm_log, smount, imp, yin_arg, printed>>

\* a document is handed to yin_parse_submodule, which reads its root only
YinParseSubmodule ==
    /\ yin.status = "idle"
    /\ \E root \in {"module", "submodule", "container"}, oom \in BOOLEAN :
        /\ oom => root = "submodule"
        /\ yin' = yin_parse_submodule([root |-> root, named |-> TRUE, stmts |-> <<>>], oom)
    /\ UNCHANGED <<smvars, logvars, lyd_val, sm_log, smount, imp, yin_arg, printed>>

\* the loop of parse_mod makes one pass
ParseMod ==
    /\ yin.status = "parsing"
    /\ yin' = parse_mod(yin)
    /\ UNCHANGED <<smvars, logvars, lyd_val, sm_log, smount, imp, yin_arg, printed>>

\* the import elements: the substatements below an import element whose module
\* attribute is present, each a well-formed element
ImportElements == UNION {[1..n -> ImportSub] : n \in 0..MaxSubs}

\* yin_parse_attribute called with "(const char **)&rev": the value is stored in
\* the parameter of yin_parse_revision_date, the array it points to stays as it was
store_in_parameter(old, new) == old

\* yin_parse_revision_date on the rev array of an import: the duplicate test on its
\* first character, then the date is parsed
yin_parse_revision_date(rev, arg) ==
    IF rev # 0 THEN [ret |-> "LY_EVALID", rev |-> rev]
    ELSE [ret |-> "LY_SUCCESS", rev |-> store_in_parameter(rev, arg)]

\* yin_parse_import up to its loop: the new import of the array, nothing set in it
yin_parse_import(subs) ==
    [ImpIdle EXCEPT !.status = "parsing", !.subs = subs]

\* yin_parse_import returns ret; consumed: the end tag of the import was read
import_return(i, ret, consumed) ==
    [i EXCEPT !.status = "returned", !.ret = ret, !.consumed = consumed]

\* one pass of the loop of yin_parse_import, and what follows the loop: without a
\* prefix LY_CHECK_RET returns the value of "!imp->prefix", 1, which is LY_EMEM
import_pass(i) ==
    LET el == lyxml_get_element(i.subs, i.pos)
        read == [i EXCEPT !.pos = el.pos]
    IN
    IF el.end
    THEN import_return(read, IF i.prefix = 0 THEN "LY_EMEM" ELSE "LY_SUCCESS", TRUE)
    ELSE CASE el.name = "prefix" ->
                IF i.prefix # 0 THEN import_return(read, "LY_EVALID", FALSE)
                ELSE [read EXCEPT !.prefix = store_argument(@, el.pos)]
           [] el.name = "description" ->
                IF i.dsc # 0 THEN import_return(read, "LY_EVALID", FALSE)
                ELSE [read EXCEPT !.dsc = store_argument(@, el.pos)]
           [] el.name = "reference" ->
                IF i.ref # 0 THEN import_return(read, "LY_EVALID", FALSE)
                ELSE [read EXCEPT !.ref = store_argument(@, el.pos)]
           [] el.name = "revision-date" ->
                [read EXCEPT !.rev = yin_parse_revision_date(@, el.pos).rev]
           [] OTHER -> import_return(read, "LY_EVALID", FALSE)

\* parse_mod after "case YANG_IMPORT": the value yin_parse_import returned is not
\* read and the loop goes on; the import is the last statement of the module, so
\* after a whole import the loop meets the end of the module and ret is LY_SUCCESS
import_statement(i, rest) ==
    [i EXCEPT !.status = "done", !.mod_ret = IF i.consumed THEN "LY_SUCCESS" ELSE rest]

\* parse_mod meets an import element
YinParseImport ==
    /\ imp.status = "idle"
    /\ \E subs \in ImportElements : imp' = yin_parse_import(subs)
    /\ UNCHANGED <<smvars, logvars, yin, lyd_val, sm_log, smount, yin_arg, printed>>

\* the loop of yin_parse_import makes one pass
ImportPass ==
    /\ imp.status = "parsing"
    /\ imp' = import_pass(imp)
    /\ UNCHANGED <<smvars, logvars, yin, lyd_val, sm_log, smount, yin_arg, printed>>

\* parse_mod reads the rest of the document; when yin_parse_import returned from
\* the middle of the import, what lyxml_get_element makes of the rest decides
ImportStatement ==
    /\ imp.status = "returned"
    /\ \E rest \in {"LY_SUCCESS", "LY_EVALID"} :
        /\ imp.consumed => rest = "LY_SUCCESS"
        /\ imp' = import_statement(imp, rest)
    /\ UNCHANGED <<smvars, logvars, yin, lyd_val, sm_log, smount, yin_arg, printed>>

\* ------------------------------------------------------------------ argument names
\* the strings match_argument_name compares with, one character per element
Str_mlns == <<"m", "l", "n", "s">>
Str_ondition == <<"o", "n", "d", "i", "t", "i", "o", "n">>
Str_ate == <<"a", "t", "e">>
Str_odule == <<"o", "d", "u", "l", "e">>
Str_ame == <<"a", "m", "e">>
Str_a == <<"a">>
Str_g == <<"g">>
Str_rget_node == <<"r", "g", "e", "t", "-", "n", "o", "d", "e">>
Str_ext == <<"e", "x", "t">>
Str_ri == <<"r", "i">>
Str_alue == <<"a", "l", "u", "e">>

\* the character at offset off of a string that ends with a null character
CharAt(name, off) == IF off < Len(name) THEN name[off + 1] ELSE "NUL"

\* "!strncmp((name) + already_read, STR, LEN)" with LEN the length of STR
strncmp_equal(name, already_read, str) ==
    \A k \in 1..Len(str) : CharAt(name, already_read + k - 1) = str[k]

\* IF_ARG(STR, LEN, STMT) followed by what its else branch gives
IF_ARG(name, already_read, str, stmt, else) ==
    IF strncmp_equal(name, already_read, str)
    THEN [already_read |-> already_read + Len(str), arg |-> stmt]
    ELSE else

\* a test that lets a name pass whatever its length
any_length(already_read, len) == TRUE

\* "whole argument must be matched"
whole_matched(already_read, len) == already_read = len

\* match_argument_name(name, len) on a string that holds at least len characters
match_argument_name(name, len) ==
    LET none(n) == [already_read |-> n, arg |-> "YIN_ARG_UNKNOWN"]
        c == CharAt(name, 0)
        m == CASE c = "x" -> IF_ARG(name, 1, Str_mlns, "YIN_ARG_XMLNS", none(1))
               [] c = "c" -> IF_ARG(name, 1, Str_ondition, "YIN_ARG_CONDITION", none(1))
               [] c = "d" -> IF_ARG(name, 1, Str_ate, "YIN_ARG_DATE", none(1))
               [] c = "m" -> IF_ARG(name, 1, Str_odule, "YIN_ARG_MODULE", none(1))
               [] c = "n" -> IF_ARG(name, 1, Str_ame, "YIN_ARG_NAME", none(1))
               [] c = "t" ->
                    IF strncmp_equal(name, 1, Str_a)
                    THEN IF_ARG(name, 2, Str_g, "YIN_ARG_TAG",
                            IF_ARG(name, 2, Str_rget_node, "YIN_ARG_TARGET_NODE", none(2)))
                    ELSE IF_ARG(name, 1, Str_ext, "YIN_ARG_TEXT", none(1))
               [] c = "u" -> IF_ARG(name, 1, Str_ri, "YIN_ARG_URI", none(1))
               [] c = "v" -> IF_ARG(name, 1, Str_alue, "YIN_ARG_VALUE", none(1))
               [] OTHER -> none(0)
    IN
    IF len = 0 THEN "YIN_ARG_UNKNOWN"
    ELSE IF ~whole_matched(m.already_read, len) THEN "YIN_ARG_UNKNOWN"
    ELSE m.arg

\* the names of the YIN arguments
ArgumentNames ==
    {<<"x">> \o Str_mlns, <<"c">> \o Str_ondition, <<"d">> \o Str_ate,
     <<"m">> \o Str_odule, <<"n">> \o Str_ame, <<"t">> \o Str_a \o Str_g,
     <<"t">> \o Str_a \o Str_rget_node, <<"t">> \o Str_ext, <<"u">> \o Str_ri,
     <<"v">> \o Str_alue}

\* what can follow the start of a name in the document
TailChar == {"e", "x", "t", "="}

\* the strings names are taken from: the start of an argument name, then up to
\* MaxTail more characters
NameStrings ==
    UNION {{SubSeq(k, 1, n) \o tail :
                n \in 0..Len(k), tail \in UNION {[1..j -> TailChar] : j \in 0..MaxTail}} :
            k \in ArgumentNames}

\* the parser has a name in the document: a string and the length of the name
ArgumentName ==
    /\ yin_arg.status = "idle"
    /\ \E name \in NameStrings : \E len \in 0..Len(name) :
        /\ yin_arg' = [status |-> "named", name |-> name, len |-> len, arg |-> "none"]
    /\ UNCHANGED <<smvars, logvars, yin, lyd_val, sm_log, smount, imp, printed>>

\* match_argument_name is called on the name
MatchArgumentName ==
    /\ yin_arg.status = "named"
    /\ yin_arg' = [yin_arg EXCEPT !.status = "done",
                                  !.arg = match_argument_name(yin_arg.name, yin_arg.len)]
    /\ UNCHANGED <<smvars, logvars, yin, lyd_val, sm_log, smount, imp, printed>>

\* ------------------------------------------------------------------ compiled size
\* the value lyht_insert copies from val_p, sizeof(void *) bytes: the address of the
\* structure when val_p is "&when" or "&type"
ptr_val(addr) == <<"address", addr>>

\* ... and the first word of the pattern structure when val_p is "patterns[u]"
pattern_val(c, q) == <<"word", c.word[q]>>

\* lyht_insert returns LY_EEXIST: ctxs_ptr_val_equal finds the value in the table
exists(c, val) == val \in c.ht

\* ctxs_when: the table is checked, then the members of the when are added
ctxs_when(c, w) ==
    IF exists(c, ptr_val(w)) THEN c
    ELSE [c EXCEPT !.ht = @ \cup {ptr_val(w)}, !.whens[w] = @ + 1]

RECURSIVE ctxs_whens(_, _)
\* ctxs_whens: ctxs_when on every when of the array
ctxs_whens(c, whens) ==
    IF whens = <<>> THEN c
    ELSE ctxs_whens(ctxs_when(c, Head(whens)), Tail(whens))

RECURSIVE ctxs_patterns(_, _)
\* ctxs_patterns from patterns[u] on: the function returns at the first pattern
\* whose value is in the table
ctxs_patterns(c, patterns) ==
    IF patterns = <<>> THEN c
    ELSE LET q == Head(patterns) IN
         IF exists(c, pattern_val(c, q)) THEN c
         ELSE ctxs_patterns([c EXCEPT !.ht = @ \cup {pattern_val(c, q)},
                                      !.patterns[q] = @ + 1],
                            Tail(patterns))

RECURSIVE ctxs_type(_, _)
RECURSIVE ctxs_union_types(_, _)
\* ctxs_type: the table is checked, then the members of the type are added
ctxs_type(c, t) ==
    IF exists(c, ptr_val(t)) THEN c
    ELSE LET c1 == [c EXCEPT !.ht = @ \cup {ptr_val(t)}, !.counted[t] = @ + 1] IN
         CASE c.types[t].basetype = "LY_TYPE_STRING" ->
                ctxs_patterns(c1, c.types[t].patterns)
           [] c.types[t].basetype = "LY_TYPE_UNION" ->
                ctxs_union_types(c1, c.types[t].types)
           [] OTHER -> c1

\* the loop of ctxs_type on the member types of a union
ctxs_union_types(c, types) ==
    IF types = <<>> THEN c
    ELSE ctxs_union_types(ctxs_type(c, Head(types)), Tail(types))

\* ctxs_node on a leaf
ctxs_node(c, leaf) == ctxs_type(ctxs_whens(c, leaf.when), leaf.type)

\* the arrays of patterns of a string type: every pattern at most once
PatternArrays ==
    {a \in UNION {[1..n -> PatternAddr] : n \in 0..MaxPatterns} :
        \A i, j \in DOMAIN a : a[i] = a[j] => i = j}

\* the compiled types of a context
CompiledTypes ==
    {[t \in TypeAddr |->
        IF t = "str1" THEN [basetype |-> "LY_TYPE_STRING", patterns |-> p1, types |-> <<>>]
        ELSE IF t = "str2" THEN [basetype |-> "LY_TYPE_STRING", patterns |-> p2, types |-> <<>>]
        ELSE [basetype |-> "LY_TYPE_UNION", patterns |-> <<>>, types |-> m]] :
      p1 \in PatternArrays, p2 \in PatternArrays,
      m \in {<<"str1", "str2">>, <<"str2">>}}

\* the two leaves of the module of a context
CompiledLeaves ==
    {<<[when |-> w1, type |-> t1], [when |-> w2, type |-> t2]>> :
        w1 \in {<<"when1">>, <<"when1", "when2">>}, w2 \in {<<>>, <<"when1">>},
        t1 \in TypeAddr, t2 \in TypeAddr}

\* ly_ctx_print_compiled_size is called on a context: the table is created
PrintCompiledSize ==
    /\ printed.status = "idle"
    /\ \E leaves \in CompiledLeaves, types \in CompiledTypes,
          word \in [PatternAddr -> PatternWord] :
        printed' = [CtxsIdle EXCEPT !.status = "walking", !.leaves = leaves,
                                    !.types = types, !.word = word]
    /\ UNCHANGED <<smvars, logvars, yin, lyd_val, sm_log, smount, imp, yin_arg>>

\* ctxs_compiled walks the next node of the module
CtxsNode ==
    /\ printed.status = "walking"
    /\ printed.next < Len(printed.leaves)
    /\ printed' = [ctxs_node(printed, printed.leaves[printed.next + 1])
                        EXCEPT !.next = @ + 1]
    /\ UNCHANGED <<smvars, logvars, yin, lyd_val, sm_log, smount, imp, yin_arg>>

\* every node was walked: the table is freed and the size returned
SizeReturned ==
    /\ printed.status = "walking"
    /\ printed.next = Len(printed.leaves)
    /\ printed' = [printed EXCEPT !.status = "done", !.ht = {}]
    /\ UNCHANGED <<smvars, logvars, yin, lyd_val, sm_log, smount, imp, yin_arg>>

\* ------------------------------------------------------------------ data validator
\* the trees: the parent of every node but the root, and what the when and the must
\* of each node evaluate to (TRUE as well for a node without one)
DataTrees ==
    {[parent |-> p, when |-> w, must |-> m] :
        p \in {q \in [DataNode -> 0..MaxData] :
                   q[1] = 0 /\ \A n \in DataNode \ {1} : q[n] >= 1 /\ q[n] < n},
        w \in [DataNode -> BOOLEAN], m \in [DataNode -> BOOLEAN]}

\* node n and the nodes below it
RECURSIVE Subtree(_, _)
Subtree(parent, n) ==
    {n} \cup UNION {Subtree(parent, c) : c \in {d \in DOMAIN parent : parent[d] = n}}

\* a pruning that takes the node and leaves what is below it
prune_node(parent, effective, n) == effective \ {n}

\* pruning node n: it and its subtree leave the effective tree
prune(parent, effective, n) == effective \ Subtree(parent, n)

\* validation of a tree starts: every node is in the effective tree
val_begin(t) ==
    [status |-> "when", parent |-> t.parent, when |-> t.when, must |-> t.must,
     next |-> MaxData, effective |-> DataNode, evaluated |-> {}, errors |-> {}]

\* the when of node v.next is evaluated (bottom-up: the children come first); a
\* false one prunes the node; after the root the musts follow
eval_when(v) ==
    LET n == v.next
        eff == IF n \in v.effective /\ ~v.when[n] THEN prune(v.parent, v.effective, n)
               ELSE v.effective
    IN
    IF n = 1 THEN [v EXCEPT !.effective = eff, !.status = "must", !.next = 1]
    ELSE [v EXCEPT !.effective = eff, !.next = n - 1]

\* the must of node v.next is evaluated if the node is in the effective tree
\* (top-down: the parents come first); a false one is a validation error
eval_must(v) ==
    LET n == v.next
        w == IF n \in v.effective
             THEN [v EXCEPT !.evaluated = @ \cup {n},
                            !.errors = IF v.must[n] THEN @ ELSE @ \cup {n}]
             ELSE v
    IN
    IF n = MaxData THEN [w EXCEPT !.status = "done"] ELSE [w EXCEPT !.next = n + 1]

\* a tree is handed to the validator
ValBegin ==
    /\ lyd_val.status = "idle"
    /\ \E t \in DataTrees : lyd_val' = val_begin(t)
    /\ UNCHANGED <<smvars, logvars, yin, sm_log, smount, imp, yin_arg, printed>>

\* the when of the next node is evaluated
EvalWhen ==
    /\ lyd_val.status = "when"
    /\ lyd_val' = eval_when(lyd_val)
    /\ UNCHANGED <<smvars, logvars, yin, sm_log, smount, imp, yin_arg, printed>>

\* the must of the next node is evaluated
EvalMust ==
    /\ lyd_val.status = "must"
    /\ lyd_val' = eval_must(lyd_val)
    /\ UNCHANGED <<smvars, logvars, yin, sm_log, smount, imp, yin_arg, printed>>

\* ------------------------------------------------------------------ log options of parse and validate
\* a call starts: the options of the process before the first call are remembered
call_started(g) == IF g.before = <<>> THEN [g EXCEPT !.before = <<ly_log_opts>>] ELSE g

\* "old_log_opts = ly_log_options(LY_LOSTORE_LAST)": the options of the process are
\* replaced and the previous ones are kept in the local of thread t
save_log_options(t, at, g) ==
    /\ ly_log_opts' = LY_LOSTORE_LAST
    /\ sm_log' = [g EXCEPT !.at[t] = at,
                            !.old_log_opts[t] = ly_log_opts]

\* "ly_log_options(old_log_opts)" and the return of the call
restore_log_options(t) ==
    /\ ly_log_opts' = sm_log.old_log_opts[t]
    /\ sm_log' = [sm_log EXCEPT !.at[t] = "idle", !.old_log_opts[t] = 0]

\* schema_mount_parse up to lyd_parse_data: schema_mount_get_ctx fails and the call
\* returns, or the options are saved and replaced
ParseSaveOptions(t, r) ==
    /\ sm_log.at[t] = "idle"
    /\ IF r # "LY_SUCCESS"
       THEN /\ sm_log' = [call_started(sm_log) EXCEPT !.ret[t] = r]
            /\ UNCHANGED ly_log_opts
       ELSE save_log_options(t, "parse", [call_started(sm_log) EXCEPT !.ret[t] = "LY_SUCCESS"])
    /\ UNCHANGED <<ly_ll, temp_log_opts, opts_ret, errlist, eitems, err_events, last_step>>
    /\ UNCHANGED <<smvars, yin, lyd_val, smount, imp, yin_arg, printed>>

\* the loop of lyd_parse_data and lyd_insert_ext: each outcome goes to cleanup
ParseData(t, r) ==
    /\ sm_log.at[t] = "parse"
    /\ sm_log' = [sm_log EXCEPT !.at[t] = "cleanup", !.ret[t] = r]
    /\ UNCHANGED <<smvars, logvars, yin, lyd_val, smount, imp, yin_arg, printed>>

\* the cleanup label of schema_mount_parse
ParseCleanup(t) ==
    /\ sm_log.at[t] = "cleanup"
    /\ restore_log_options(t)
    /\ UNCHANGED <<ly_ll, temp_log_opts, opts_ret, errlist, eitems, err_events, last_step>>
    /\ UNCHANGED <<smvars, yin, lyd_val, smount, imp, yin_arg, printed>>

\* schema_mount_validate up to lyd_validate_all: one of the earlier steps fails and
\* the call goes to cleanup, or the options are saved and replaced
ValidateSaveOptions(t, r) ==
    /\ sm_log.at[t] = "idle"
    /\ IF r # "LY_SUCCESS"
       THEN /\ sm_log' = [call_started(sm_log) EXCEPT !.ret[t] = r]
            /\ UNCHANGED ly_log_opts
       ELSE save_log_options(t, "validate", [call_started(sm_log) EXCEPT !.ret[t] = "LY_SUCCESS"])
    /\ UNCHANGED <<ly_ll, temp_log_opts, opts_ret, errlist, eitems, err_events, last_step>>
    /\ UNCHANGED <<smvars, yin, lyd_val, smount, imp, yin_arg, printed>>

\* lyd_validate_all returned r: the options are put back, the tree is restored and
\* the call returns
ValidateAll(t, r) ==
    /\ sm_log.at[t] = "validate"
    /\ ly_log_opts' = sm_log.old_log_opts[t]
    /\ sm_log' = [sm_log EXCEPT !.at[t] = "idle", !.old_log_opts[t] = 0, !.ret[t] = r]
    /\ UNCHANGED <<ly_ll, temp_log_opts, opts_ret, errlist, eitems, err_events, last_step>>
    /\ UNCHANGED <<smvars, yin, lyd_val, smount, imp, yin_arg, printed>>

\* the application chooses the options of the process before it calls the library
ChooseLogOptions ==
    /\ sm_log.before = <<>>
    /\ SetLogOptions

ParseOptions == \E t \in Thread :
    \/ \E r \in {"LY_SUCCESS", "LY_EINVAL", "LY_ENOT"} : ParseSaveOptions(t, r)
    \/ \E r \in {"LY_SUCCESS", "LY_ENOT", "LY_EINVAL"} : ParseData(t, r)
    \/ ParseCleanup(t)

ValidateOptions == \E t \in Thread :
    \/ \E r \in {"LY_SUCCESS", "LY_EINVAL", "LY_EMEM"} : ValidateSaveOptions(t, r)
    \/ \E r \in {"LY_SUCCESS", "LY_EVALID"} : ValidateAll(t, r)

\* ------------------------------------------------------------------ callers
\* the caller of the call that just returned takes its result
TakeResult ==
    /\ ~Taken
    /\ last_ret' = NoRet
    /\ last_compile' = NoCompile
    /\ UNCHANGED <<version, aborted, alive, exts, shared, nctx, liveCtx, memErr,
                   inline_ok, inline_given, shared_given, pc, fr>>
    /\ UNCHANGED <<logvars, libvars>>

Next ==
    Compile \/ Free \/ Enter \/ SharedStep \/ InlineStep \/ Parse \/ Validate \/ TakeResult

Spec == Init /\ [][Next]_vars

\* the logger is used on its own
LoggerInit == Init /\ version = "LYS_VERSION_1_1"

\* the log options and the verbosity level
LogNext == SetLogOptions \/ SetTempLogOptions \/ SetLogLevel

LogSpec == LoggerInit /\ [][LogNext]_vars

\* a thread chooses between keeping every record (LY_LOSTORE as its own options)
\* and keeping the last one (the process-wide default)
SetStoreOptions ==
    \E t \in LogThread, opts \in {<<>>, <<LY_LOSTORE>>} : ly_temp_log_options(t, opts)

\* the error records of the threads: errors are generated and records cleaned under
\* the options of the threads
ErrNext == SetStoreOptions \/ LogMessage \/ ErrClean

ErrSpec == LoggerInit /\ [][ErrNext]_vars

\* one chain under messages of every level, every verbosity level and the options
\* of its thread, with the error-level messages counted
CountNext == SetLogLevel \/ SetTempLogOptions \/ CountedMessage \/ CountedClean

CountSpec == LoggerInit /\ [][CountNext]_vars

CtxsNext == PrintCompiledSize \/ CtxsNode \/ SizeReturned

\* the size of every compiled context
CtxsSpec == LoggerInit /\ [][CtxsNext]_vars

ArgNext == ArgumentName \/ MatchArgumentName

\* match_argument_name on every name
ArgSpec == LoggerInit /\ [][ArgNext]_vars

ImportNext == YinParseImport \/ ImportPass \/ ImportStatement

\* the YIN parser on every import element
ImportSpec == LoggerInit /\ [][ImportNext]_vars

\* the YIN parser on every document
YinNext == YinParseModule \/ YinParseSubmodule \/ ParseMod

YinSpec == LoggerInit /\ [][YinNext]_vars

\* the when and must pass of the data validator on every tree
ValNext == ValBegin \/ EvalWhen \/ EvalMust

ValSpec == LoggerInit /\ [][ValNext]_vars

\* threads in schema_mount_parse and schema_mount_validate, followed through the
\* log options
OptsNext == ChooseLogOptions \/ ParseOptions \/ ValidateOptions

OptsSpec == LoggerInit /\ [][OptsNext]_vars

\* the get-context calls on the instances of a compiled YANG 1.1 module
GetCtxNext == Compile \/ Enter \/ SharedStep \/ InlineStep \/ TakeResult

GetCtxSpec == LoggerInit /\ [][GetCtxNext]_vars

\* schema_mount_get_smount on every ext data
SmountNext == SmountExtData \/ GetSmount

SmountSpec == LoggerInit /\ [][SmountNext]_vars

\* ------------------------------------------------------------------ properties
\* the mount-point instances of the compiled tree whose compile callback succeeded
Instances ==
    {p \in Node \X (1..MaxExts) :
        /\ p[1] \in alive /\ p[2] <= Len(exts[p[1]])
        /\ IsMountPoint(exts[p[1]][p[2]])
        /\ exts[p[1]][p[2]].data.state = "valid"}

\* the call that just returned went through the locked part of
\* schema_mount_get_ctx_shared
SharedReturn ==
    /\ last_ret.op = "get_ctx"
    /\ last_ret.path \in {"hit", "differs", "create_failed", "realloc_failed", "created"}
    /\ last_ret.content_id # NoId

\* C1: a shared get-context call that finds its label cached with the content-id of
\* its own ext data succeeds with the cached context, which an earlier successful call
\* was given, and leaves the cache as it found it (no entry added, no context
\* created); and a context a successful call was given stays cached under its
\* content-id for as long as the block lives
C1_SharedHitReturnsCached ==
    /\ SharedReturn =>
        LET r == last_ret
            label == exts[r.node][r.idx].argument
            b == exts[r.node][r.idx].data.shared
        IN \A k \in 1..Len(r.old) :
            (r.old[k].mount_point = label /\ r.old[k].content_id = r.content_id) =>
                /\ r.ret = "LY_SUCCESS"
                /\ r.ext_ctx = r.old[k].ctx
                /\ shared[b].schemas = r.old
                /\ shared[b].schema_count = Len(r.old)
                /\ [ctx |-> r.ext_ctx, shared |-> b] \in liveCtx
    /\ \A b \in Node : shared[b].state = "live" =>
        \A g \in shared_given[b] : \E k \in 1..Len(shared[b].schemas) :
            /\ k <= shared[b].schema_count
            /\ shared[b].schemas[k].ctx = g.ctx
            /\ shared[b].schemas[k].content_id = g.content_id

\* C1 witness: a call returned the cached context of an earlier call
C1_Witness ==
    /\ SharedReturn
    /\ last_ret.path = "hit" /\ last_ret.ret = "LY_SUCCESS"
    /\ \E k \in 1..Len(last_ret.old) : last_ret.old[k].ctx = last_ret.ext_ctx

\* C2: a shared get-context call that finds its label cached with another content-id
\* than that of its own ext data fails with LY_EVALID, returns no context and leaves
\* the cache as it found it; and no call through the locked part changes an entry the
\* cache already had
C2_ContentIdMismatch ==
    SharedReturn =>
        LET r == last_ret
            label == exts[r.node][r.idx].argument
            b == exts[r.node][r.idx].data.shared
        IN /\ \A k \in 1..Len(r.old) :
                (r.old[k].mount_point = label /\ r.old[k].content_id # r.content_id) =>
                    /\ r.ret = "LY_EVALID"
                    /\ r.ext_ctx = 0
                    /\ shared[b].schemas = r.old
                    /\ shared[b].schema_count = Len(r.old)
           /\ \A k \in 1..Len(r.old) :
                k <= Len(shared[b].schemas) /\ shared[b].schemas[k] = r.old[k]

\* C2 witness: a call with another content-id than the cached one was refused
C2_Witness ==
    /\ SharedReturn
    /\ last_ret.ret = "LY_EVALID"
    /\ \E k \in 1..Len(last_ret.old) : last_ret.old[k].content_id # last_ret.content_id

\* C3: the inline contexts an instance holds are as many as the successful inline
\* get-context calls on it, and they are the contexts those calls returned, all
\* different
C3_InlineCountEqualsCalls ==
    \A p \in Instances :
        LET il == exts[p[1]][p[2]].data.inln IN
        /\ il.schema_count = inline_ok[p[1]]
        /\ Len(il.schemas) = il.schema_count
        /\ {il.schemas[k].ctx : k \in 1..Len(il.schemas)} = inline_given[p[1]]
        /\ Cardinality(inline_given[p[1]]) = inline_ok[p[1]]

\* C4: schema_mount_compile fails and leaves the instance without payload when the
\* module is not YANG 1.1, when the parent statement is neither container nor list or
\* when the parent has another mount-point instance; otherwise, unless an allocation
\* fails, it succeeds and the instance holds a payload with a live shared block
C4_CompileChecks ==
    last_compile.ret # "none" =>
        LET r == last_compile
            arr == exts[r.node]
            d == arr[r.idx].data
            bad == \/ version # "LYS_VERSION_1_1"
                   \/ parent_stmt(r.node) \notin {"LY_STMT_CONTAINER", "LY_STMT_LIST"}
                   \/ \E v \in 1..Len(arr) : v # r.idx /\ IsMountPoint(arr[v])
        IN /\ bad => (r.ret # "LY_SUCCESS" /\ d.state = "null")
           /\ (~bad /\ r.alloc = "none") =>
                (r.ret = "LY_SUCCESS" /\ d.state = "valid" /\ shared[d.shared].state = "live")
           /\ r.ret = "LY_SUCCESS" => ~bad

\* C4 witness: a second mount-point instance of a container or list of a YANG 1.1
\* module was refused
C4_Witness ==
    /\ last_compile.ret = "LY_EINVAL"
    /\ version = "LYS_VERSION_1_1"
    /\ parent_stmt(last_compile.node) \in {"LY_STMT_CONTAINER", "LY_STMT_LIST"}
    /\ \E v \in 1..Len(exts[last_compile.node]) :
        v # last_compile.idx /\ IsMountPoint(exts[last_compile.node][v])

\* C5: a successful schema_mount_compile creates no inner context: the live contexts
\* are those that lived before, the instance has no inline schema, a shared block the
\* call created has no schema, and a shared block the call joined has the schemas it
\* had
C5_CompileCreatesNoContext ==
    last_compile.ret = "LY_SUCCESS" =>
        LET r == last_compile
            d == exts[r.node][r.idx].data
        IN /\ liveCtx = r.old_live
           /\ d.inln.schema_count = 0 /\ d.inln.schemas = <<>>
           /\ r.joined = 0 => (shared[d.shared].schema_count = 0 /\ shared[d.shared].schemas = <<>>)
           /\ r.joined # 0 => (d.shared = r.joined /\ shared[d.shared].schemas = r.old_schemas)

\* C5 witness: an instance joined a shared block that already held a context
C5_Witness ==
    /\ last_compile.ret = "LY_SUCCESS"
    /\ last_compile.joined # 0
    /\ last_compile.old_schemas # <<>>

\* C6: the ref_count of a shared block is the number of compiled instances of the
\* tree that reference it; the block lives exactly as long as there is one, with all
\* its cached contexts alive, and once it is freed none of its contexts is left; no
\* block is freed twice
C6_RefCount ==
    \A b \in Node :
        LET refs == {p \in Instances : exts[p[1]][p[2]].data.shared = b} IN
        /\ shared[b].state # "corrupt"
        /\ (shared[b].state = "live") <=> (refs # {})
        /\ shared[b].state = "live" =>
            /\ shared[b].ref_count = Cardinality(refs)
            /\ \A k \in 1..Len(shared[b].schemas) :
                k <= shared[b].schema_count =>
                    [ctx |-> shared[b].schemas[k].ctx, shared |-> b] \in liveCtx
        /\ shared[b].state # "live" => \A x \in liveCtx : x.shared # b

\* C6 witness: a block with a cached context outlived the instance that created it
C6_Witness ==
    \E b \in Node :
        /\ b \notin alive
        /\ shared[b].state = "live"
        /\ shared[b].ref_count = 1
        /\ shared[b].schema_count = 1

C8_ExtDataBeforeLock ==
    LET get == [fn |-> "lyplg_ext_get_data", locked |-> FALSE] IN
    /\ \A t \in Thread : pc[t] # "idle" => get \in fr[t].calls
    /\ \A t \in Thread : HoldsLock(t) => pc[t] # "idle"
    /\ \A c \in last_ret.calls \cup UNION {fr[t].calls : t \in Thread} :
        c.fn = "lyplg_ext_get_data" => ~c.locked
    /\ last_ret.op = "get_ctx" => get \in last_ret.calls
    /\ (last_ret.op = "validate" /\ last_ret.ret # "LY_EINT") => get \in last_ret.calls

\* C8 witness: a thread holds the mutex after its call of get_ext_data
C8_Witness ==
    \E t \in Thread :
        /\ HoldsLock(t)
        /\ [fn |-> "lyplg_ext_get_data", locked |-> FALSE] \in fr[t].calls

\* C9: whatever the interleaving of the calls on a shared block, the calls that
\* succeed with the same content-id were given the same context; the cache holds one
\* entry per label, and the contexts alive for the block are the cached ones, so that
\* one context was created for the label
C9_OneSharedContext ==
    \A b \in Node : shared[b].state = "live" =>
        LET blk == shared[b]
            cached == {blk.schemas[k].ctx : k \in 1..Len(blk.schemas)}
        IN /\ \A g1 \in shared_given[b] : \A g2 \in shared_given[b] :
                g1.content_id = g2.content_id => g1.ctx = g2.ctx
           /\ \A g \in shared_given[b] : g.ctx \in cached
           /\ Len(blk.schemas) = blk.schema_count
           /\ \A k1 \in 1..Len(blk.schemas) : \A k2 \in 1..Len(blk.schemas) :
                blk.schemas[k1].mount_point = blk.schemas[k2].mount_point => k1 = k2
           /\ {x.ctx : x \in {y \in liveCtx : y.shared = b}} = cached

\* C9 witness: a call created the context of a label while another thread, inside a
\* call for the same label with the same content-id, waits for the mutex
C9_Witness ==
    /\ SharedReturn
    /\ last_ret.path = "created"
    /\ \E t \in Thread :
        /\ pc[t] = "lock"
        /\ BlockOf(t) = exts[last_ret.node][last_ret.idx].data.shared
        /\ ExtOf(t).argument = exts[last_ret.node][last_ret.idx].argument
        /\ fr[t].content_id = last_ret.content_id

\* C10: the mutex of a shared block is held only by a thread inside the locked part
\* of a call on that block: whichever way a call returns (hit, content-id mismatch,
\* failed construction, failed allocation), it has released the mutex
C10_UnlockOnEveryPath ==
    /\ \A b \in Node : (shared[b].state = "live" /\ shared[b].lock # 0) =>
        /\ shared[b].lock \in Thread
        /\ pc[shared[b].lock] \in {"exists", "create"}
        /\ BlockOf(shared[b].lock) = b
    /\ SharedReturn => shared[exts[last_ret.node][last_ret.idx].data.shared].lock
                            \notin {t \in Thread : pc[t] = "idle"}

\* C10 witness: a call returned after a failed allocation and the mutex is free
C10_Witness ==
    /\ SharedReturn
    /\ last_ret.path = "realloc_failed"
    /\ shared[exts[last_ret.node][last_ret.idx].data.shared].lock = 0

C12_ValidateRestoresTree ==
    last_ret.op = "validate" =>
        /\ Len(last_ret.tree) = last_ret.count
        /\ \A i \in DOMAIN last_ret.tree :
            /\ last_ret.tree[i].kind = "mounted"
            /\ last_ret.tree[i].parent = "parent"
            /\ "LYD_EXT" \in last_ret.tree[i].flags

\* the observed chain and the options of its thread
ObsChain == Chain(ObsThread, ObsCtx)
ObsOpts == effective_opts(ObsThread)

\* the last step generated a message on the observed chain
Generated == last_step # <<>> /\ last_step[1].op = "message"

\* the last step cleaned the observed chain
Cleaned == last_step # <<>> /\ last_step[1].op = "clean"

ObsLastIs(e) ==
    /\ ObsChain # <<>>
    /\ LET r == eitems[ObsChain[Len(ObsChain)]] IN
        /\ r.level = e.level /\ r.no = e.no /\ r.vecode = e.vecode
        /\ r.msg = e.msg /\ r.path = e.path /\ r.apptag = e.apptag

\* no record holds a verbose or a debug message
NoVerboseRecord ==
    \A i \in ItemId : eitems[i].used => eitems[i].level \in {LY_LLERR, LY_LLWRN}

C15_TempOptionsAreThreadLocal ==
    [][\A t \in LogThread, o \in TempOpts :
          ly_temp_log_options(t, o) =>
              /\ ly_log_opts' = ly_log_opts
              /\ effective_opts(t)' = IF o = <<>> THEN ly_log_opts ELSE o[1]
              /\ \A u \in LogThread \ {t} :
                  /\ effective_opts(u)' = effective_opts(u)
                  /\ temp_log_opts[u] = <<>> => effective_opts(u)' = ly_log_opts]_vars

\* one thread uses its own options, which differ from the process-wide ones, while
\* the other one observes the process-wide options
C15_Witness ==
    /\ temp_log_opts["thr1"] = <<LY_LOSTORE>>
    /\ effective_opts("thr1") = LY_LOSTORE
    /\ temp_log_opts["thr2"] = <<>>
    /\ effective_opts("thr2") = ly_log_opts
    /\ ly_log_opts = LY_LOLOG

\* C17: ly_log_options(opts) installs opts and returns the options that were in
\* effect right before the call, so that a call with the returned value installs
\* the earlier options again; before any call the options are
\* LY_LOLOG | LY_LOSTORE_LAST.
C17_LogOptionsRoundTrip ==
    /\ [](opts_ret = <<>> => ly_log_opts = LY_LOLOG + LY_LOSTORE_LAST)
    /\ [][\A o \in LogOpts :
             ly_log_options(o) =>
                 /\ ly_log_opts' = o
                 /\ opts_ret' = <<ly_log_opts>>]_vars

\* a call returned options other than the default ones and installed different ones
C17_Witness ==
    /\ opts_ret = <<LY_LOSTORE>>
    /\ ly_log_opts = LY_LOLOG

\* the records of the chain of thread t in context c
Records(t, c) == {Chain(t, c)[j] : j \in DOMAIN Chain(t, c)}

\* C16: error records are thread-specific and context-specific: what ly_err_first,
\* ly_err_last and the last-error accessors return to a thread for a context is a
\* record that this thread generated on this context, and no record is reached from
\* two threads or through two contexts.
C16_RecordsPerThreadAndContext ==
    \A t \in LogThread, c \in LogCtx :
        /\ \A i \in Records(t, c) \cup ({ly_err_first(t, c), ly_err_last(t, c)} \ {0}) :
            /\ eitems[i].used
            /\ eitems[i].thr = t
            /\ eitems[i].ctx = c
        /\ ly_err_last(t, c) # 0 =>
            /\ ly_errmsg(t, c) = eitems[ly_err_last(t, c)].msg
            /\ ly_errpath(t, c) = eitems[ly_err_last(t, c)].path
            /\ ly_errapptag(t, c) = eitems[ly_err_last(t, c)].apptag
        /\ \A u \in LogThread, d \in LogCtx :
            <<u, d>> # <<t, c>> => Records(t, c) \cap Records(u, d) = {}

\* both threads hold a record of the same context, one of them a record of the
\* other context as well, and the records of the first thread differ between the
\* contexts and from the other thread's
C16_Witness ==
    /\ ly_errmsg("thr1", "ctx1") = "m1"
    /\ ly_errmsg("thr2", "ctx1") = "m2"
    /\ ly_errmsg("thr1", "ctx2") = "m2"
    /\ ly_err_first("thr2", "ctx2") = 0

\* C18 (whole chain): ly_err_clean(ctx, NULL) removes every record of the calling
\* thread in the context; (from a record on): ly_err_clean(ctx, eitem) removes eitem
\* and every record generated after it and keeps, in their order, the records
\* generated before it.
C18_CleanRemovesFromItemOn ==
    Cleaned =>
        LET s == last_step[1]
            kept == IF s.pos = 0 THEN 0 ELSE s.pos - 1
        IN
        /\ Len(ObsChain) = kept
        /\ \A j \in 1..kept : content(eitems[ObsChain[j]]) = s.before[j]
        /\ \A i \in ItemId : eitems[i].used => i \in Records(ObsThread, ObsCtx)
        /\ \A i \in ItemId : ~eitems[i].used => eitems[i] = FreeItem

\* a chain of three different records was cleaned from its third record on
C18_Witness ==
    /\ Cleaned
    /\ last_step[1].pos = 3
    /\ Len(last_step[1].before) = 3
    /\ last_step[1].before[1].msg = "m2"
    /\ last_step[1].before[2].msg = "m3"
    /\ last_step[1].before[3].msg = "m1"
    /\ Len(ObsChain) = 2

\* C19: in a non-empty error list the first item's prev points to the last item, the
\* last item's next is NULL and every adjacent pair a, b has a.next = b and
\* b.prev = a; ly_err_first and ly_err_last return the first and the last item, and
\* NULL when the list is empty.
C19_ListPointers ==
    \A t \in LogThread, c \in LogCtx :
        LET ch == Chain(t, c) IN
        /\ Len(ch) <= MaxErrs
        /\ ch = <<>> => ly_err_first(t, c) = 0 /\ ly_err_last(t, c) = 0
        /\ ch # <<>> =>
            /\ eitems[ch[1]].prev = ch[Len(ch)]
            /\ eitems[ch[Len(ch)]].next = 0
            /\ \A j \in 1..(Len(ch) - 1) :
                /\ eitems[ch[j]].next = ch[j + 1]
                /\ eitems[ch[j + 1]].prev = ch[j]
            /\ \A j \in DOMAIN ch : eitems[ch[j]].used
            /\ ly_err_first(t, c) = ch[1]
            /\ ly_err_last(t, c) = ch[Len(ch)]

\* a list of three items whose last item was allocated before its second one: a
\* record of another list was cleaned in between
C19_Witness ==
    /\ Chain("thr1", "ctx1") = <<1, 3, 2>>
    /\ eitems[1].prev = 2
    /\ eitems[2].prev = 3

YinDone ==
    /\ yin.status = "done" /\ yin.fn = "yin_parse_module" /\ ~yin.oom
    /\ yin.root = "module" /\ yin.named

\* a statement of the document is of a lower section than a statement before it
OutOfOrder(stmts) ==
    \E i, j \in DOMAIN stmts : i < j /\ Section(stmts[j]) < Section(stmts[i])

\* C21: the section of the module parser only moves forward: a module with a
\* top-level statement of a lower section than some statement before it fails to
\* parse with a validation error, wherever the statement is, and no statement of a
\* lower section than the current one is ever passed.
C21_SectionOnlyMovesForward ==
    /\ (YinDone /\ OutOfOrder(yin.stmts)) => yin.ret = "LY_EVALID" /\ ~yin.mod.parsed
    /\ (yin.status = "parsing" /\ yin.pos >= 2) =>
        ~OutOfOrder(SubSeq(yin.stmts, 1, yin.pos - 1))

\* a header statement was read at the very end of the module, behind a linkage
\* statement, and the pass of the loop after it returned the validation error
C21_Witness ==
    /\ YinDone
    /\ yin.stmts = <<"namespace", "import", "prefix">>
    /\ yin.pos = 3
    /\ yin.kw = "prefix"
    /\ yin.ret = "LY_EVALID"

\* the statements that may occur at most once at module level
OnceKeyword ==
    {"namespace", "prefix", "organization", "contact", "description", "reference"}

\* a statement that may occur at most once occurs twice
Duplicated(stmts) ==
    \E i, j \in DOMAIN stmts : i < j /\ stmts[i] = stmts[j] /\ stmts[i] \in OnceKeyword

\* C22: a well-formed module whose top-level statements are in non-decreasing
\* section order (header, linkage, meta, revision, body) is parsed successfully:
\* the statements of each of the five sections are accepted.
C22_OrderedModuleParses ==
    (YinDone /\ ~OutOfOrder(yin.stmts) /\ ~Duplicated(yin.stmts)) =>
        /\ yin.ret = "LY_SUCCESS"
        /\ yin.mod.parsed

\* C23: a module in which a statement that may occur at most once occurs twice at
\* module level is rejected with a validation error, and the second occurrence
\* never replaces the value of the first.
C23_DuplicateRejected ==
    (YinDone /\ ~OutOfOrder(yin.stmts) /\ Duplicated(yin.stmts)
            /\ \A i \in DOMAIN yin.stmts : yin.stmts[i] \in OnceKeyword) =>
        /\ yin.ret = "LY_EVALID"
        /\ ~yin.mod.parsed

\* node n or one of its ancestors has a when that is false
RECURSIVE WhenFalseAbove(_, _)
WhenFalseAbove(v, n) ==
    n # 0 /\ (~v.when[n] \/ WhenFalseAbove(v, v.parent[n]))

\* C24: a node whose own or any ancestral when evaluates to false is pruned before
\* any must is evaluated: no must is evaluated while a when is still to be
\* evaluated, and no must of a node at or below a when-false node is evaluated or
\* contributes a validation error.
C24_WhenFalsePrunedBeforeMust ==
    /\ lyd_val.status = "when" => lyd_val.evaluated = {} /\ lyd_val.errors = {}
    /\ lyd_val.status \in {"must", "done"} =>
        /\ \A n \in DataNode : WhenFalseAbove(lyd_val, n) => n \notin lyd_val.effective
        /\ \A n \in lyd_val.evaluated \cup lyd_val.errors : ~WhenFalseAbove(lyd_val, n)
        /\ lyd_val.errors = {n \in lyd_val.evaluated : ~lyd_val.must[n]}

\* the when of the second node was false, the must of the node below it would have
\* failed, and the validation raised the error of the root's must only
C24_Witness ==
    /\ lyd_val.status = "done"
    /\ lyd_val.parent = <<0, 1, 2>>
    /\ lyd_val.when = <<TRUE, FALSE, TRUE>>
    /\ lyd_val.must = <<FALSE, TRUE, FALSE>>
    /\ lyd_val.errors = {1}
    /\ lyd_val.effective = {1}

\* the call that just returned was a validate call that invoked lyd_validate_all
InnerValidation ==
    /\ last_ret.op = "validate"
    /\ \E c \in last_ret.calls : c.fn = "lyd_validate_all"

\* C25: when schema_mount_validate invokes lyd_validate_all, every mounted
\* top-level sibling is in the validated tree without LYD_EXT and unlinked from the
\* outer parent, and the duplicated parent-reference subtree, if there is one, is
\* a sibling in the validated tree.
C25_TreeAtInnerValidation ==
    /\ InnerValidation =>
        /\ {d.id : d \in {last_ret.validated[i] : i \in DOMAIN last_ret.validated}
                            \cap {e \in {last_ret.validated[i] : i \in DOMAIN last_ret.validated} :
                                      e.kind = "mounted"}}
              = 1..last_ret.count
        /\ last_ret.count >= 1
        /\ \A i \in DOMAIN last_ret.validated :
            /\ "LYD_EXT" \notin last_ret.validated[i].flags
            /\ last_ret.validated[i].parent = "NULL"
        /\ Len(last_ret.validated) = last_ret.count + last_ret.refs
        /\ last_ret.refs > 0 =>
            \E i \in DOMAIN last_ret.validated : last_ret.validated[i].kind = "ref"
    /\ (last_ret.op = "validate" /\ ~InnerValidation) => last_ret.validated = <<>>

\* two mounted siblings were validated together with a duplicated parent reference
C25_Witness ==
    /\ InnerValidation
    /\ last_ret.count = 2
    /\ last_ret.refs = 1
    /\ Len(last_ret.validated) = 3
    /\ last_ret.ret = "LY_EVALID"

\* C26: whenever schema_mount_compile returns an error the payload pointer of the
\* instance is NULL, so that a later schema_mount_free of the instance does nothing.
C26_FailedCompileLeavesNoPayload ==
    (last_compile.ret \notin {"none", "LY_SUCCESS"}) =>
        exts[last_compile.node][last_compile.idx].data = NullData

\* C27: once every concurrent call has returned, no inline context is lost: the
\* inline schema count of an instance is the number of successful inline calls on
\* it and every context these calls returned is in its inline list.
C27_NoInlineContextLost ==
    AllIdle =>
        \A p \in Instances :
            LET il == exts[p[1]][p[2]].data.inln IN
            /\ il.schema_count = inline_ok[p[1]]
            /\ inline_given[p[1]] \subseteq {il.schemas[k].ctx : k \in 1..Len(il.schemas)}

\* C28: schema_mount_parse and schema_mount_validate put the log options of the
\* process back: once every call has returned, on whatever path and after whatever
\* interleaving, the options are those from before the first call.
C28_LogOptionsPutBack ==
    (sm_log.before # <<>> /\ \A t \in Thread : sm_log.at[t] = "idle") =>
        ly_log_opts = sm_log.before[1]

\* the call that just returned was a get-context or a validate call whose callback
\* handed it ext data with LYD_NEW on a top-level node
GivenNewExtData ==
    /\ last_ret.op \in {"get_ctx", "validate"}
    /\ last_ret.given # <<>>
    /\ last_ret.given[1].new

\* C29: when a top-level node of the ext data carries LYD_NEW, schema_mount_get_ctx
\* and schema_mount_validate return LY_EINVAL; they call nothing but the callback and
\* the logger, so that no context is created or cached and the data tree is left as
\* it was, and ext data that came with ext_data_free are freed.
C29_UnvalidatedExtDataRefused ==
    GivenNewExtData =>
        /\ last_ret.ret = "LY_EINVAL"
        /\ {c.fn : c \in last_ret.calls} = {"lyplg_ext_get_data", "lyplg_ext_log"}
        /\ last_ret.siblings = "untouched"
        /\ last_ret.ext_data = IF last_ret.given[1].ext_data_free THEN "freed" ELSE "live"
        /\ last_ret.op = "get_ctx" => (last_ret.ext_ctx = 0 /\ last_ret.path = "none")
        /\ last_ret.op = "validate" =>
            /\ last_ret.validated = <<>>
            /\ last_ret.tree = mounted_siblings(last_ret.count)

\* a validate call was handed unvalidated ext data it had to free
C29_Witness ==
    /\ GivenNewExtData
    /\ last_ret.op = "validate"
    /\ last_ret.given[1].ext_data_free
    /\ last_ret.ext_data = "freed"

\* schema_mount_get_smount returned; the ext data held an entry for the mount point
SmountDone == smount.status = "done"

HasEntry == ~smount.is_null /\ smount.ed.mount_point

\* what C30 says of the calls that find an entry: shared exactly with a
\* shared-schema child, inline exactly with an inline child and no shared-schema
\* child, LY_EINT with neither, config false only for a config leaf "false"
EntryReported ==
    LET o == smount.out[1]
        e == smount.ed
    IN /\ (o.r = "LY_SUCCESS" /\ o.shared = "1") <=> e.shared_schema
       /\ (o.r = "LY_SUCCESS" /\ o.shared = "0") <=> (~e.shared_schema /\ e.inln)
       /\ (o.r = "LY_EINT") <=> (~e.shared_schema /\ ~e.inln)
       /\ o.config = "0" => smount.config = "false"

\* C30 as stated: schema_mount_get_smount returns LY_ENOT when the ext data are
\* absent or hold no entry for the mount point, and otherwise reports the entry.
C30_SmountAsStated ==
    SmountDone =>
        /\ ~HasEntry => smount.out[1].r = "LY_ENOT"
        /\ HasEntry => EntryReported

\* C30, amended: unless asprintf fails, in which case the call returns LY_EMEM and
\* writes nothing, schema_mount_get_smount returns LY_ENOT when the ext data are
\* absent or hold no entry for the mount point, and otherwise reports the entry.
C30_SmountUnlessOutOfMemory ==
    SmountDone =>
        /\ smount.oom =>
            smount.out[1] = [r |-> "LY_EMEM", config |-> "unset", shared |-> "unset"]
        /\ (~smount.oom /\ ~HasEntry) => smount.out[1].r = "LY_ENOT"
        /\ (~smount.oom /\ HasEntry) => EntryReported

\* an entry with an inline child, no shared-schema child and a config leaf "false"
\* was reported as inline with config false
C30_Witness ==
    /\ SmountDone
    /\ HasEntry /\ ~smount.oom
    /\ ~smount.ed.shared_schema /\ smount.ed.inln
    /\ smount.config = "false"
    /\ smount.out[1] = [r |-> "LY_SUCCESS", config |-> "0", shared |-> "0"]

\* thread t starts a get-context call in this step: it goes on to the mutex or to
\* the inline part, or it returns
Enters(t) ==
    /\ pc[t] = "idle"
    /\ \/ pc'[t] # "idle"
       \/ last_ret' # last_ret /\ last_ret'.op = "get_ctx" /\ last_ret'.path = "none"

\* ... and does so with the inputs x, on the instance its frame or its result names
EntersWith(t, x) ==
    LET call == IF pc'[t] # "idle" THEN fr'[t] ELSE last_ret' IN
    /\ call.node \in alive
    /\ call.idx \in 1..Len(exts[call.node])
    /\ GetCtxEnter(t, call.node, call.idx, x.cb_fail, x.is_null, x.ed, x.edfree, x.oom)

\* the inputs with validated ext data that hold a shared-schema entry
SharedEntryInputs ==
    {x \in EnterInputs : /\ ~x.cb_fail /\ ~x.is_null /\ ~x.oom
                         /\ ~x.ed.new /\ x.ed.mount_point /\ x.ed.shared_schema}

\* C31: a get-context call on a shared mount point goes to the mutex with the
\* yang-library content-id when the ext data hold one and with the modules-state
\* module-set-id otherwise; with neither it returns LY_EVALID, its thread never
\* takes the mutex and the cache is as it was.
C31_ContentIdOrModuleSetId ==
    [][\A t \in Thread : Enters(t) =>
        \A x \in SharedEntryInputs : EntersWith(t, x) =>
            IF x.ed.content_id # NoId
            THEN pc'[t] = "lock" /\ fr'[t].content_id = x.ed.content_id
            ELSE IF x.ed.module_set_id # NoId
            THEN pc'[t] = "lock" /\ fr'[t].content_id = x.ed.module_set_id
            ELSE /\ pc'[t] = "idle"
                 /\ last_ret'.op = "get_ctx" /\ last_ret'.ret = "LY_EVALID"
                 /\ last_ret'.ext_ctx = 0
                 /\ \A c \in last_ret'.calls : ~c.locked
                 /\ \A b \in Node : shared'[b].lock # t
                 /\ shared' = shared]_vars

\* a call on a shared mount point was refused for want of a content identifier
C31_Witness ==
    /\ last_ret.op = "get_ctx"
    /\ last_ret.ret = "LY_EVALID"
    /\ last_ret.path = "none"
    /\ last_ret.given # <<>> /\ ~last_ret.given[1].new
    /\ \E b \in Node : shared[b].state = "live" /\ shared[b].schema_count > 0

\* the call that just returned was a parse whose last lyd_parse_data call failed
\* with a code other than LY_ENOT
InnerParseFailed ==
    /\ last_ret.op = "parse"
    /\ last_ret.results # <<>>
    /\ last_ret.results[Len(last_ret.results)] \notin {"LY_SUCCESS", "LY_ENOT"}

C33_OneSchemaPerSharedBlock ==
    \A b \in Node : shared[b].state = "live" =>
        /\ shared[b].schema_count <= 1
        /\ Len(shared[b].schemas) = shared[b].schema_count
        /\ \A i, j \in 1..Len(shared[b].schemas) :
            shared[b].schemas[i].mount_point = shared[b].schemas[j].mount_point => i = j
        /\ \A p \in Instances :
            (exts[p[1]][p[2]].data.state = "valid" /\ exts[p[1]][p[2]].data.shared = b) =>
                \A i \in 1..Len(shared[b].schemas) :
                    shared[b].schemas[i].mount_point = exts[p[1]][p[2]].argument

\* two instances share a block that caches one schema, and a call was served from it
C33_Witness ==
    /\ \E b \in Node :
        /\ shared[b].state = "live"
        /\ shared[b].ref_count = 2
        /\ shared[b].schema_count = 1
    /\ last_ret.op = "get_ctx" /\ last_ret.path = "hit"

\* C34: yin_parse_module returns LY_SUCCESS exactly when it has set mod->parsed;
\* every failure, the failure to allocate the parsed module included, returns
\* another code and leaves mod->parsed unset.
C34_SuccessIffParsedSet ==
    (yin.status = "done" /\ yin.fn = "yin_parse_module") =>
        /\ (yin.ret = "LY_SUCCESS") <=> yin.mod.parsed
        /\ yin.oom => yin.ret # "LY_SUCCESS"

\* C37: when yin_parse_module fails, the module structure of the caller is as it
\* was before the call: mod->parsed is not set and the namespace, the prefix and the
\* meta fields are not modified.
C37_FailedParseLeavesModule ==
    (yin.status = "done" /\ yin.fn = "yin_parse_module" /\ yin.ret # "LY_SUCCESS") =>
        /\ ~yin.mod.parsed
        /\ yin.mod.ns = EmptyModule.ns
        /\ yin.mod.prefix = EmptyModule.prefix
        /\ yin.mod.org = EmptyModule.org
        /\ yin.mod.contact = EmptyModule.contact
        /\ yin.mod.dsc = EmptyModule.dsc
        /\ yin.mod.ref = EmptyModule.ref

\* the call that just returned found a root element it does not parse
WrongRoot ==
    /\ yin.status = "done"
    /\ yin.root # (IF yin.fn = "yin_parse_module" THEN "module" ELSE "submodule")

\* C38: yin_parse_module returns LY_EINVAL for a submodule root and LY_EVALID for a
\* root that is neither module nor submodule, yin_parse_submodule returns LY_EINVAL
\* for a module root and LY_EVALID for a root that is neither, and none of these
\* calls hands a parsed module or submodule back.
C38_RootElementChecked ==
    WrongRoot =>
        /\ yin.ret = IF yin.root \in {"module", "submodule"} THEN "LY_EINVAL" ELSE "LY_EVALID"
        /\ ~yin.mod.parsed
        /\ ~yin.submod

\* yin_parse_submodule was handed a module and refused it
C38_Witness ==
    /\ WrongRoot
    /\ yin.fn = "yin_parse_submodule"
    /\ yin.root = "module"
    /\ yin.ret = "LY_EINVAL"

\* the number of revision-date elements among the substatements read so far
RevisionDates(i) == Cardinality({k \in 1..i.pos : i.subs[k] = "revision-date"})

\* C35: when parsing an import fails (a duplicate prefix, description or reference,
\* an unknown substatement, a missing prefix), parsing the module fails as well
C35_ImportFailureFailsModule ==
    imp.status = "done" /\ imp.ret # "LY_SUCCESS" => imp.mod_ret # "LY_SUCCESS"

\* C36: an import with two revision-date elements is rejected with LY_EVALID, and
\* after one revision-date element the rev field of the import holds its date
C36_RevisionDateStoredOnce ==
    imp.status \in {"returned", "done"} =>
        /\ RevisionDates(imp) >= 2 => imp.ret = "LY_EVALID"
        /\ RevisionDates(imp) = 1 => imp.rev # 0

\* the kind of each argument name
ArgumentKind ==
    [k \in ArgumentNames |->
        CASE k[1] = "x" -> "YIN_ARG_XMLNS"
          [] k[1] = "c" -> "YIN_ARG_CONDITION"
          [] k[1] = "d" -> "YIN_ARG_DATE"
          [] k[1] = "m" -> "YIN_ARG_MODULE"
          [] k[1] = "n" -> "YIN_ARG_NAME"
          [] k[1] = "u" -> "YIN_ARG_URI"
          [] k[1] = "v" -> "YIN_ARG_VALUE"
          [] k[1] = "t" /\ Len(k) = 3 -> "YIN_ARG_TAG"
          [] k[1] = "t" /\ Len(k) = 4 -> "YIN_ARG_TEXT"
          [] OTHER -> "YIN_ARG_TARGET_NODE"]

\* C39: match_argument_name(name, len) returns the kind of an argument exactly when
\* the first len characters of name are the name of that argument in full, and
\* YIN_ARG_UNKNOWN otherwise: for len = 0, for the start of an argument name and
\* for an argument name followed by more characters
C39_WholeArgumentNameMatched ==
    yin_arg.status = "done" =>
        LET first == SubSeq(yin_arg.name, 1, yin_arg.len) IN
        IF first \in ArgumentNames THEN yin_arg.arg = ArgumentKind[first]
        ELSE yin_arg.arg = "YIN_ARG_UNKNOWN"

\* target-node is matched at the start of a longer string
C39_Witness ==
    /\ yin_arg.status = "done"
    /\ yin_arg.arg = "YIN_ARG_TARGET_NODE"
    /\ Len(yin_arg.name) > yin_arg.len

\* the types reachable from the leaves of the context: their types and the member
\* types of the unions among them
ReachableTypes ==
    LET own == {printed.leaves[i].type : i \in DOMAIN printed.leaves} IN
    own \cup UNION {{printed.types[t].types[k] : k \in DOMAIN printed.types[t].types} :
                      t \in own}

\* the patterns in the arrays of the reachable types
ReachablePatterns ==
    UNION {{printed.types[t].patterns[k] : k \in DOMAIN printed.types[t].patterns} :
             t \in ReachableTypes}

\* the whens in the arrays of the leaves
ReachableWhens ==
    UNION {{printed.leaves[i].when[k] : k \in DOMAIN printed.leaves[i].when} :
             i \in DOMAIN printed.leaves}

\* C40: ly_ctx_print_compiled_size counts every distinct compiled type, when and
\* pattern reachable from the context exactly once
C40_SharedStructuresCountedOnce ==
    printed.status = "done" =>
        /\ \A t \in ReachableTypes : printed.counted[t] = 1
        /\ \A w \in ReachableWhens : printed.whens[w] = 1
        /\ \A q \in ReachablePatterns : printed.patterns[q] = 1
====
